---- MODULE Spec2Model ----
(***************************************************************************)
(* One run of InfrahubOps.CreateBackup or InfrahubOps.RestoreBackup        *)
(* (internal/app/backup.go, backup_neo4j.go), as a sequential program      *)
(* whose external calls (Exec, CopyTo, CopyFrom, file system, service      *)
(* start/stop) succeed or fail nondeterministically.  Go's defer is a      *)
(* stack of registered release actions that a return unwinds.              *)
(***************************************************************************)
EXTENDS Integers, Sequences, FiniteSets, TLC

\* Bound: number of files an extracted or staged database subtree may hold.
MaxDbFiles == 1

(***************************************************************************)
(* Strings whose characters matter are sequences of one-character strings. *)
(***************************************************************************)
Upper == <<"A","B","C","D","E","F","G","H","I","J","K","L","M",
           "N","O","P","Q","R","S","T","U","V","W","X","Y","Z">>
Lower == <<"a","b","c","d","e","f","g","h","i","j","k","l","m",
           "n","o","p","q","r","s","t","u","v","w","x","y","z">>

LowerChar(c) ==
    IF \E i \in DOMAIN Upper : Upper[i] = c
    THEN Lower[CHOOSE i \in DOMAIN Upper : Upper[i] = c]
    ELSE c

\* strings.ToLower
ToLower(s) == [i \in DOMAIN s |-> LowerChar(s[i])]

\* strings.EqualFold (ASCII)
EqualFold(s, t) == ToLower(s) = ToLower(t)

neo4jEditionCommunity == <<"c","o","m","m","u","n","i","t","y">>
neo4jEditionEnterprise == <<"e","n","t","e","r","p","r","i","s","e">>

\* what the edition probe answers, and what a metadata file may record
DetectedEditions == { neo4jEditionCommunity, neo4jEditionEnterprise }
RecordedEditions ==
    { neo4jEditionCommunity,
      <<"E","n","t","e","r","p","r","i","s","e">>,
      <<>> }

NoErr == "nil"

\* the application services, in the order they are stopped and started
AppServices == <<"infrahub-server", "task-worker">>
AllServices == { AppServices[i] : i \in DOMAIN AppServices }

\* files below <workDir>/backup, by relative path
prefectDumpFilename == <<"prefect.dump", 0>>
DbPaths == { <<"database", i>> : i \in 1..MaxDbFiles }
Paths == DbPaths \cup {prefectDumpFilename}
\* the content a file of this run may have, and the contents a recorded
\* digest may be of
Contents == {"A"}
RecordedContents == {"A", "B"}

\* calculateSHA256: an injective digest of a file's content
calculateSHA256(c) == IF c = "A" THEN "sha(A)" ELSE "sha(B)"
Digests == { calculateSHA256(c) : c \in RecordedContents }

\* partial functions from a set of keys to a set of values
PartialFns(K, V) == UNION { [D -> V] : D \in SUBSET K }

NoMetadata == [Neo4jEdition |-> <<>>, Components |-> {}, Checksums |-> <<>>]

\* what a parseable backup_information.json can hold
MetadataSet ==
    [Neo4jEdition : RecordedEditions,
     Components : { {"database"}, {"database", "task-manager-db"} },
     Checksums : PartialFns(Paths, Digests)]

\* an archive file: its entries below backup/ and its
\* backup_information.json ("ok": parseable, "garbage": not, "missing")
NoArchive ==
    [present |-> FALSE, entries |-> <<>>, metaState |-> "missing",
     metadata |-> NoMetadata]
Archive(entries, meta) ==
    [present |-> TRUE, entries |-> entries, metaState |-> "ok",
     metadata |-> meta]

\* the backup files a restore may be given
RestoreArchives ==
    { NoArchive }
    \cup { Archive(e, m) : e \in PartialFns(Paths, Contents), m \in MetadataSet }
    \cup { [present |-> TRUE, entries |-> <<>>, metaState |-> st,
            metadata |-> NoMetadata] : st \in {"missing", "garbage"} }
NoEdition == [Edition |-> <<>>, IsCommunity |-> FALSE, DetectionErr |-> FALSE]

VARIABLES
    args,              \* the operation and its flags
    pc,                \* position in the running function
    defers,            \* stack of registered deferred functions, top first
    retErr,            \* result of CreateBackup / RestoreBackup
    nErr,              \* result in flight of the database-level functions
    editionInfo,       \* Neo4jEditionInfo of this run
    neo4jEdition,      \* restore: the reconciled edition
    metadata,          \* BackupMetadata
    files,             \* files under <workDir>/backup: path -> content
    workDir,           \* the temporary staging directory exists
    archive,           \* the archive file: CreateBackup's at backupPath
                       \* in config.BackupDir, RestoreBackup's backupFile
    running,           \* application services currently running
    stoppedServices,   \* what stopAppContainers reported as stopped
    servicesToRestart, \* CreateBackup's servicesToRestart
    startCalls,        \* arguments of the startAppContainers calls so far
    pidStr,            \* the PID read from the PID file
    neo4jProc,         \* the database process
    marker,            \* the watchdog readiness marker: "none", "stale"
                       \* (left by a previous run) or "fresh" (written by
                       \* the helper of this run)
    watchdog,          \* the helper launched in this run
    elapsed,           \* seconds the wait in progress has been polling
    remote,            \* directories of the database service that runs
                       \* share: path -> runs whose backup files it holds
    runs,              \* runs executed concurrently: run -> its position,
                       \* what it copied out and its error
    K8sNamespace,      \* config.K8sNamespace of the KubernetesBackend
    namespace,         \* KubernetesBackend.namespace
    podCache,          \* KubernetesBackend.podCache: service -> pod name
    cluster,           \* what the cluster answers to kubectl now
    k8sRet,            \* the last call on the KubernetesBackend, its result
    trace              \* external calls made so far, with their outcome

ctl == <<pc, defers>>
errs == <<retErr, nErr>>
edition == <<editionInfo, neo4jEdition>>
fs == <<metadata, files, workDir, archive>>
app == <<running, stoppedServices, servicesToRestart, startCalls>>
shared == <<remote, runs>>
db == <<pidStr, neo4jProc, marker, watchdog, elapsed, shared>>
k8s == <<K8sNamespace, namespace, podCache, cluster, k8sRet>>
vars == <<args, ctl, errs, edition, fs, app, db, k8s, trace>>

\* one external call in the trace
Ev(name, ok, arg) == [ev |-> name, ok |-> ok, arg |-> arg]
Log(name, ok) == Append(trace, Ev(name, ok, <<>>))

\* a straight run of calls of which the k-th failed (k = 0: none did)
LogRun(names, k) ==
    trace \o [i \in 1..(IF k = 0 THEN Len(names) ELSE k) |->
                 Ev(names[i], i # k, <<>>)]

Issued(name) == \E i \in DOMAIN trace : trace[i].ev = name
Succeeded(name) == \E i \in DOMAIN trace : trace[i].ev = name /\ trace[i].ok
Failed(name) == \E i \in DOMAIN trace : trace[i].ev = name /\ ~trace[i].ok

ArgsSet ==
    { [op |-> "CreateBackup", force |-> f, excludeTaskManager |-> x,
       restoreMigrateFormat |-> FALSE, S3Upload |-> s] :
         f \in BOOLEAN, x \in BOOLEAN, s \in BOOLEAN }
    \cup
    { [op |-> "RestoreBackup", force |-> FALSE, excludeTaskManager |-> x,
       restoreMigrateFormat |-> m, S3Upload |-> FALSE] :
         x \in BOOLEAN, m \in BOOLEAN }

\* the KubernetesBackend before any call on it, and no cluster attached
NoCall ==
    [op |-> "none", service |-> <<>>, pod |-> <<>>, err |-> <<>>,
     queries |-> <<>>]
NoCluster == [sel |-> <<>>, all |-> [ok |-> FALSE, pods |-> <<>>]]

\* a run on the Docker backend leaves the KubernetesBackend untouched
K8sIdle ==
    /\ K8sNamespace = ""
    /\ namespace = ""
    /\ podCache = <<>>
    /\ cluster = NoCluster
    /\ k8sRet = NoCall
Init ==
    /\ args \in ArgsSet
    /\ pc = IF args.op = "CreateBackup" THEN "cb_preflight" ELSE "rb_preflight"
    /\ defers = <<>>
    /\ retErr = NoErr
    /\ nErr = NoErr
    /\ editionInfo = NoEdition
    /\ neo4jEdition = <<>>
    /\ metadata = NoMetadata
    /\ files = <<>>
    /\ workDir = FALSE
    /\ archive \in IF args.op = "CreateBackup"
                    THEN {NoArchive} ELSE RestoreArchives
    /\ running = AllServices
    /\ stoppedServices = {}
    /\ servicesToRestart = {}
    /\ startCalls = <<>>
    /\ pidStr = <<>>
    /\ neo4jProc = "running"
    /\ marker = "none"
    /\ watchdog = FALSE
    /\ elapsed = 0
    /\ remote = <<>>
    /\ runs = <<>>
    /\ K8sIdle
    /\ trace = <<>>

(***************************************************************************)
(* Service control (the calls CreateBackup and RestoreBackup make).        *)
(***************************************************************************)

\* the first k application services
FirstServices(k) == { AppServices[i] : i \in 1..k }

\* stopAppContainers with cur running: (services stopped, ok).  The
\* services are stopped in order; a failure at one leaves the later ones
\* untouched.
StopOutcomes(cur) ==
    { <<cur, TRUE>> } \cup
    { <<cur \cap FirstServices(k - 1), FALSE>> : k \in DOMAIN AppServices }

\* startAppContainers(list) with cur running: (services now running, ok)
StartOutcomes(cur, list) ==
    { <<cur \cup list, TRUE>> } \cup
    { <<cur \cup (list \cap FirstServices(k - 1)), FALSE>> :
        k \in DOMAIN AppServices }

(***************************************************************************)
(* CreateBackup                                                            *)
(***************************************************************************)

\* return err from CreateBackup: set the result, then unwind the defers
CBReturn(e) ==
    /\ retErr' = e
    /\ pc' = "cb_return"

\* checkPrerequisites, DetectEnvironment
CB_Preflight ==
    /\ pc = "cb_preflight"
    /\ \E k \in 0..2 :
        /\ trace' = LogRun(<<"checkPrerequisites", "DetectEnvironment">>, k)
        /\ IF k = 0
           THEN /\ pc' = "cb_detect_edition"
                /\ UNCHANGED retErr
           ELSE CBReturn(IF k = 1 THEN "prerequisites" ELSE "environment")
    /\ UNCHANGED <<args, k8s, defers, nErr, edition, fs, app, db>>

\* detectNeo4jEditionInfo("backup"): a failed probe leaves the edition
\* undetermined; IsCommunity is the case-insensitive comparison
CB_DetectEdition_FailedIsCommunity ==
    /\ pc = "cb_detect_edition"
    /\ \/ /\ editionInfo' = [Edition |-> neo4jEditionCommunity,
                             IsCommunity |-> TRUE, DetectionErr |-> TRUE]
          /\ trace' = Log("detectNeo4jEdition", FALSE)
       \/ \E e \in DetectedEditions :
          /\ editionInfo' = [Edition |-> e,
                             IsCommunity |-> EqualFold(e, neo4jEditionCommunity),
                             DetectionErr |-> FALSE]
          /\ trace' = Log("detectNeo4jEdition", TRUE)
    /\ pc' = "cb_task_check"
    /\ UNCHANGED <<args, k8s, defers, errs, neo4jEdition, fs, app, db>>
CB_DetectEdition ==
    /\ pc = "cb_detect_edition"
    /\ \/ /\ editionInfo' = [Edition |-> <<>>, IsCommunity |-> FALSE,
                             DetectionErr |-> TRUE]
          /\ trace' = Log("detectNeo4jEdition", FALSE)
       \/ \E e \in DetectedEditions :
          /\ editionInfo' = [Edition |-> e,
                             IsCommunity |-> EqualFold(e, neo4jEditionCommunity),
                             DetectionErr |-> FALSE]
          /\ trace' = Log("detectNeo4jEdition", TRUE)
    /\ pc' = "cb_task_check"
    /\ UNCHANGED <<args, k8s, defers, errs, neo4jEdition, fs, app, db>>

\* unless forced, waitForRunningTasks
CB_TaskCheck_Ignore ==
    /\ pc = "cb_task_check"
    /\ IF args.force
       THEN /\ pc' = "cb_stop_app"
            /\ UNCHANGED <<retErr, trace>>
       ELSE \E ok \in BOOLEAN :
            /\ trace' = Log("waitForRunningTasks", ok)
            /\ pc' = "cb_stop_app"
            /\ UNCHANGED retErr
    /\ UNCHANGED <<args, k8s, defers, nErr, edition, fs, app, db>>
CB_TaskCheck ==
    /\ pc = "cb_task_check"
    /\ IF args.force
       THEN /\ pc' = "cb_stop_app"
            /\ UNCHANGED <<retErr, trace>>
       ELSE \E ok \in BOOLEAN :
            /\ trace' = Log("waitForRunningTasks", ok)
            /\ IF ok
               THEN pc' = "cb_stop_app" /\ UNCHANGED retErr
               ELSE CBReturn("running tasks")
    /\ UNCHANGED <<args, k8s, defers, nErr, edition, fs, app, db>>

\* the restart of the stopped services is skipped only for an empty list
RestartNeeded_OnlyOnSuccess(list, err) == list # {} /\ err = NoErr
RestartNeeded(list, err) == list # {}

\* a failed restart becomes the result only when there is no earlier error
RestartErr_Overwrite(old, ok) ==
    IF ~ok THEN "failed to restart services after backup" ELSE old
RestartErr(old, ok) ==
    IF ~ok /\ old = NoErr
    THEN "failed to restart services after backup"
    ELSE old

\* community edition: stopAppContainers; on a stop error restart what was
\* stopped and return; otherwise register the deferred restart
CB_StopApp_RestartErrorWins ==
    /\ pc = "cb_stop_app"
    /\ IF ~editionInfo.IsCommunity
       THEN /\ pc' = "cb_mktemp"
            /\ UNCHANGED <<defers, retErr, app, trace>>
       ELSE \E o \in StopOutcomes(running) :
            /\ stoppedServices' = o[1]
            /\ IF o[2]
               THEN /\ running' = running \ o[1]
                    /\ servicesToRestart' = o[1]
                    /\ defers' = <<"cb_restart">> \o defers
                    /\ trace' = Log("stopAppContainers", TRUE)
                    /\ pc' = "cb_mktemp"
                    /\ UNCHANGED <<retErr, startCalls>>
               ELSE /\ UNCHANGED <<servicesToRestart, defers>>
                    /\ IF o[1] # {}
                       THEN \E r \in StartOutcomes(running \ o[1], o[1]) :
                            /\ running' = r[1]
                            /\ startCalls' = Append(startCalls, o[1])
                            /\ trace' = trace \o
                                 << Ev("stopAppContainers", FALSE, <<>>),
                                    Ev("startAppContainers", r[2], <<>>) >>
                            /\ CBReturn(IF r[2]
                                        THEN "failed to stop services for Neo4j Community backup"
                                        ELSE "failed to restart services after backup")
                       ELSE /\ running' = running
                            /\ startCalls' = startCalls
                            /\ trace' = Log("stopAppContainers", FALSE)
                            /\ CBReturn("failed to stop services for Neo4j Community backup")
    /\ UNCHANGED <<args, k8s, nErr, edition, fs, db>>
CB_StopApp ==
    /\ pc = "cb_stop_app"
    /\ IF ~editionInfo.IsCommunity
       THEN /\ pc' = "cb_mktemp"
            /\ UNCHANGED <<defers, retErr, app, trace>>
       ELSE \E o \in StopOutcomes(running) :
            /\ stoppedServices' = o[1]
            /\ IF o[2]
               THEN /\ running' = running \ o[1]
                    /\ servicesToRestart' = o[1]
                    /\ defers' = <<"cb_restart">> \o defers
                    /\ trace' = Log("stopAppContainers", TRUE)
                    /\ pc' = "cb_mktemp"
                    /\ UNCHANGED <<retErr, startCalls>>
               ELSE /\ UNCHANGED <<servicesToRestart, defers>>
                    /\ CBReturn("failed to stop services for Neo4j Community backup")
                    /\ IF o[1] # {}
                       THEN \E r \in StartOutcomes(running \ o[1], o[1]) :
                            /\ running' = r[1]
                            /\ startCalls' = Append(startCalls, o[1])
                            /\ trace' = trace \o
                                 << Ev("stopAppContainers", FALSE, <<>>),
                                    Ev("startAppContainers", r[2], <<>>) >>
                       ELSE /\ running' = running
                            /\ startCalls' = startCalls
                            /\ trace' = Log("stopAppContainers", FALSE)
    /\ UNCHANGED <<args, k8s, nErr, edition, fs, db>>

\* os.MkdirTemp, defer os.RemoveAll(workDir)
CB_MkTemp_RemoveLast ==
    /\ pc = "cb_mktemp"
    /\ \E ok \in BOOLEAN :
        /\ trace' = Log("MkdirTemp", ok)
        /\ IF ok
           THEN /\ workDir' = TRUE
                /\ defers' = defers \o <<"cb_remove_workdir">>
                /\ pc' = "cb_mkdirs"
                /\ UNCHANGED retErr
           ELSE /\ CBReturn("failed to create temp directory")
                /\ UNCHANGED <<workDir, defers>>
    /\ UNCHANGED <<args, k8s, nErr, edition, metadata, files, archive, app, db>>
CB_MkTemp ==
    /\ pc = "cb_mktemp"
    /\ \E ok \in BOOLEAN :
        /\ trace' = Log("MkdirTemp", ok)
        /\ IF ok
           THEN /\ workDir' = TRUE
                /\ defers' = <<"cb_remove_workdir">> \o defers
                /\ pc' = "cb_mkdirs"
                /\ UNCHANGED retErr
           ELSE /\ CBReturn("failed to create temp directory")
                /\ UNCHANGED <<workDir, defers>>
    /\ UNCHANGED <<args, k8s, nErr, edition, metadata, files, archive, app, db>>

\* createBackupMetadata(backupID, !excludeTaskManager, version, edition)
createBackupMetadata(includeTaskManager, ed) ==
    [Neo4jEdition |-> ed,
     Components |-> {"database"} \cup
                    (IF includeTaskManager THEN {"task-manager-db"} ELSE {}),
     Checksums |-> <<>>]

\* MkdirAll(<workDir>/backup), MkdirAll(config.BackupDir), metadata
CB_MkDirs ==
    /\ pc = "cb_mkdirs"
    /\ \E k \in 0..2 :
        /\ trace' = LogRun(<<"MkdirAll backup", "MkdirAll BackupDir">>, k)
        /\ IF k = 0
           THEN /\ metadata' = createBackupMetadata(~args.excludeTaskManager,
                                                    editionInfo.Edition)
                /\ pc' = "cb_backup_database"
                /\ UNCHANGED retErr
           ELSE /\ CBReturn(IF k = 1 THEN "failed to create backup directory"
                            ELSE "failed to create backup parent directory")
                /\ UNCHANGED metadata
    /\ UNCHANGED <<args, k8s, defers, nErr, edition, files, workDir, archive, app, db>>

\* backupDatabase: the community procedure for the community edition
\* (lower-cased), the enterprise procedure otherwise
CB_BackupDatabase ==
    /\ pc = "cb_backup_database"
    /\ pc' = IF ToLower(editionInfo.Edition) = neo4jEditionCommunity
             THEN "bc_read_pid" ELSE "be_mkdir"
    /\ nErr' = NoErr
    /\ UNCHANGED <<args, k8s, defers, retErr, edition, fs, app, db, trace>>

\* if err := iops.backupDatabase(...); err != nil { return err }
CB_AfterDatabase_Ignore ==
    /\ pc = "cb_db_returned"
    /\ pc' = "cb_task_manager"
    /\ UNCHANGED <<args, k8s, defers, errs, edition, fs, app, db, trace>>
CB_AfterDatabase ==
    /\ pc = "cb_db_returned"
    /\ IF nErr # NoErr
       THEN CBReturn(nErr)
       ELSE pc' = "cb_task_manager" /\ UNCHANGED retErr
    /\ UNCHANGED <<args, k8s, defers, nErr, edition, fs, app, db, trace>>

\* backupTaskManagerDB unless excluded: the dump lands in the staging dir
\* when CopyFrom really copied it (the code sees only CopyFrom's result)
CB_TaskManager ==
    /\ pc = "cb_task_manager"
    /\ IF args.excludeTaskManager
       THEN /\ pc' = "cb_checksums"
            /\ UNCHANGED <<retErr, files, trace>>
       ELSE \/ /\ trace' = Log("backupTaskManagerDB", FALSE)
               /\ CBReturn("failed to backup task manager database")
               /\ UNCHANGED files
            \/ /\ trace' = Log("backupTaskManagerDB", TRUE)
               /\ \/ \E c \in Contents :
                        files' = (prefectDumpFilename :> c) @@ files
                  \/ UNCHANGED files
               /\ pc' = "cb_checksums"
               /\ UNCHANGED retErr
    /\ UNCHANGED <<args, k8s, defers, nErr, edition, metadata, workDir, archive, app, db>>

\* what the pass over the staging directory can meet: the walk of
\* backup/database failing, files calculateSHA256 cannot read, the stat of
\* the workflow dump failing for another reason than its absence
ChecksumFaults(staged, excludeTM) ==
    { [walkErr |-> TRUE, unreadable |-> {}, statErr |-> FALSE] }
    \cup { [walkErr |-> FALSE, unreadable |-> u, statErr |-> TRUE] :
             u \in { v \in SUBSET (DOMAIN staged \cap DbPaths) : ~excludeTM } }
    \cup { [walkErr |-> FALSE, unreadable |-> u, statErr |-> FALSE] :
             u \in SUBSET { p \in DOMAIN staged :
                              p \in DbPaths \/ ~excludeTM } }

\* the checksum manifest: a digest per database file that could be read
\* and, unless excluded, one for the workflow dump when it is there
calculateBackupChecksums_OneDigest(staged, excludeTM, fault) ==
    LET dbSums == [p \in (DOMAIN staged \cap DbPaths) \ fault.unreadable
                     |-> calculateSHA256("A")]
    IN IF fault.walkErr
       THEN [sums |-> <<>>,
             err |-> "failed to calculate Neo4j backup checksums"]
       ELSE IF excludeTM
       THEN [sums |-> dbSums, err |-> NoErr]
       ELSE IF fault.statErr
       THEN [sums |-> <<>>, err |-> "could not access Prefect DB dump"]
       ELSE IF prefectDumpFilename \notin DOMAIN staged
       THEN [sums |-> dbSums, err |-> NoErr]
       ELSE IF prefectDumpFilename \in fault.unreadable
       THEN [sums |-> <<>>,
             err |-> "failed to calculate Prefect DB checksum"]
       ELSE [sums |-> (prefectDumpFilename :> calculateSHA256("A"))
                      @@ dbSums,
             err |-> NoErr]
calculateBackupChecksums(staged, excludeTM, fault) ==
    LET dbSums == [p \in (DOMAIN staged \cap DbPaths) \ fault.unreadable
                     |-> calculateSHA256(staged[p])]
    IN IF fault.walkErr
       THEN [sums |-> <<>>,
             err |-> "failed to calculate Neo4j backup checksums"]
       ELSE IF excludeTM
       THEN [sums |-> dbSums, err |-> NoErr]
       ELSE IF fault.statErr
       THEN [sums |-> <<>>, err |-> "could not access Prefect DB dump"]
       ELSE IF prefectDumpFilename \notin DOMAIN staged
       THEN [sums |-> dbSums, err |-> NoErr]
       ELSE IF prefectDumpFilename \in fault.unreadable
       THEN [sums |-> <<>>,
             err |-> "failed to calculate Prefect DB checksum"]
       ELSE [sums |-> (prefectDumpFilename :>
                         calculateSHA256(staged[prefectDumpFilename]))
                      @@ dbSums,
             err |-> NoErr]

\* checksums, err := calculateBackupChecksums(...); metadata.Checksums
CB_Checksums ==
    /\ pc = "cb_checksums"
    /\ \E fault \in ChecksumFaults(files, args.excludeTaskManager) :
        LET r == calculateBackupChecksums(files, args.excludeTaskManager,
                                          fault)
        IN /\ trace' = Append(trace,
                  Ev("calculateBackupChecksums", r.err = NoErr,
                     [unreadable |-> fault.unreadable,
                      staged |-> DOMAIN files]))
           /\ IF r.err = NoErr
              THEN /\ metadata' = [metadata EXCEPT !.Checksums = r.sums]
                   /\ pc' = "cb_write_metadata"
                   /\ UNCHANGED retErr
              ELSE /\ CBReturn(r.err)
                   /\ UNCHANGED metadata
    /\ UNCHANGED <<args, k8s, defers, nErr, edition, files, workDir, archive, app, db>>

\* json.MarshalIndent, os.WriteFile(backup_information.json)
CB_WriteMetadata ==
    /\ pc = "cb_write_metadata"
    /\ \E k \in 0..2 :
        /\ trace' = LogRun(<<"MarshalIndent", "WriteFile metadata">>, k)
        /\ IF k = 0
           THEN pc' = "cb_tarball" /\ UNCHANGED retErr
           ELSE CBReturn(IF k = 1 THEN "failed to marshal metadata"
                         ELSE "failed to write metadata")
    /\ UNCHANGED <<args, k8s, defers, nErr, edition, fs, app, db>>

\* createTarball(backupPath, workDir, "backup/"): the archive is promoted
\* to the backup directory only as a whole
createTarball(current, staged, meta) ==
    { <<Archive(staged, meta), TRUE>>, <<current, FALSE>> }

CB_Tarball ==
    /\ pc = "cb_tarball"
    /\ \E o \in createTarball(archive, files, metadata) :
        /\ archive' = o[1]
        /\ trace' = Log("createTarball", o[2])
        /\ IF o[2]
           THEN pc' = "cb_upload" /\ UNCHANGED retErr
           ELSE CBReturn("failed to create archive")
    /\ UNCHANGED <<args, k8s, defers, nErr, edition, metadata, files, workDir, app, db>>

\* the S3 settings of the configuration: each is set or empty
S3Configs ==
    [S3Bucket : {"", "bucket"}, S3AccessKeyID : {"", "id"},
     S3SecretKey : {"", "secret"}]

\* validateS3Config: bucket, access key id and secret key must be set
validateS3Config(cfg) ==
    IF cfg.S3Bucket = "" THEN "S3 bucket not configured"
    ELSE IF cfg.S3AccessKeyID = "" THEN "S3 access key ID not configured"
    ELSE IF cfg.S3SecretKey = "" THEN "S3 secret key not configured"
    ELSE NoErr

UploadSteps ==
    << "createS3Client", "Open backup", "Stat backup", "PutObject" >>
UploadStepErr ==
    << "failed to create S3 client", "failed to open backup file",
       "failed to stat backup file", "failed to upload to S3" >>

\* uploadBackupToS3(backupPath): the calls made and the error returned;
\* the backup file is only opened and read
uploadBackupToS3(cfg) ==
    IF validateS3Config(cfg) # NoErr
    THEN { [calls |-> << Ev("validateS3Config", FALSE, cfg) >>,
            err |-> validateS3Config(cfg)] }
    ELSE { [calls |-> << Ev("validateS3Config", TRUE, cfg) >> \o
                      [i \in 1..(IF k = 0 THEN Len(UploadSteps) ELSE k) |->
                         Ev(UploadSteps[i], i # k, <<>>)],
            err |-> IF k = 0 THEN NoErr ELSE UploadStepErr[k]] :
           k \in 0..Len(UploadSteps) }

\* uploadBackupToS3 when config.S3Upload; then return retErr
CB_Upload_DropLocal ==
    /\ pc = "cb_upload"
    /\ IF ~args.S3Upload
       THEN /\ pc' = "cb_return"
            /\ UNCHANGED <<retErr, trace, archive>>
       ELSE \E cfg \in S3Configs : \E u \in uploadBackupToS3(cfg) :
            /\ trace' = Append(trace \o u.calls,
                               Ev("uploadBackupToS3", u.err = NoErr, <<>>))
            /\ IF u.err = NoErr
               THEN pc' = "cb_return" /\ UNCHANGED <<retErr, archive>>
               ELSE /\ CBReturn("backup created but failed to upload to S3")
                    /\ archive' = NoArchive
    /\ UNCHANGED <<args, k8s, defers, nErr, edition, metadata, files, workDir,
                   app, db>>
CB_Upload ==
    /\ pc = "cb_upload"
    /\ IF ~args.S3Upload
       THEN /\ pc' = "cb_return"
            /\ UNCHANGED <<retErr, trace>>
       ELSE \E cfg \in S3Configs : \E u \in uploadBackupToS3(cfg) :
            /\ trace' = Append(trace \o u.calls,
                               Ev("uploadBackupToS3", u.err = NoErr, <<>>))
            /\ IF u.err = NoErr
               THEN pc' = "cb_return" /\ UNCHANGED retErr
               ELSE CBReturn("backup created but failed to upload to S3")
    /\ UNCHANGED <<args, k8s, defers, nErr, edition, fs, app, db>>

\* deferred: os.RemoveAll(workDir)
CB_DeferRemoveWorkDir ==
    /\ pc = "cb_return"
    /\ defers # <<>> /\ Head(defers) = "cb_remove_workdir"
    /\ defers' = Tail(defers)
    /\ workDir' = FALSE
    /\ files' = <<>>
    /\ trace' = Log("RemoveAll workDir", TRUE)
    /\ UNCHANGED <<args, k8s, pc, errs, edition, metadata, archive, app, db>>

\* deferred: startAppContainers(servicesToRestart)
CB_DeferRestart ==
    /\ pc = "cb_return"
    /\ defers # <<>> /\ Head(defers) = "cb_restart"
    /\ defers' = Tail(defers)
    /\ IF RestartNeeded(servicesToRestart, retErr)
       THEN \E r \in StartOutcomes(running, servicesToRestart) :
            /\ running' = r[1]
            /\ startCalls' = Append(startCalls, servicesToRestart)
            /\ trace' = Log("startAppContainers", r[2])
            /\ retErr' = RestartErr(retErr, r[2])
       ELSE UNCHANGED <<running, startCalls, trace, retErr>>
    /\ UNCHANGED <<args, k8s, pc, nErr, edition, fs, stoppedServices,
                   servicesToRestart, db>>

\* the function has returned
CB_Done ==
    /\ pc = "cb_return"
    /\ defers = <<>>
    /\ pc' = "done"
    /\ UNCHANGED <<args, k8s, defers, errs, edition, fs, app, db, trace>>

(***************************************************************************)
(* The database process and the watchdog (backup_neo4j.go)                 *)
(***************************************************************************)

Space == {" ", "\t", "\n", "\r"}
Digit == {"0","1","2","3","4","5","6","7","8","9"}

RECURSIVE TrimLeft(_)
TrimLeft(s) ==
    IF s # <<>> /\ Head(s) \in Space THEN TrimLeft(Tail(s)) ELSE s
RECURSIVE TrimRight(_)
TrimRight(s) ==
    IF s # <<>> /\ s[Len(s)] \in Space
    THEN TrimRight(SubSeq(s, 1, Len(s) - 1)) ELSE s
\* strings.TrimSpace
TrimSpace(s) == TrimRight(TrimLeft(s))

\* strconv.Atoi succeeds: an optional sign, then digits only
AtoiOk(s) ==
    LET d == IF s # <<>> /\ s[1] \in {"+", "-"} THEN Tail(s) ELSE s
    IN d # <<>> /\ \A i \in DOMAIN d : d[i] \in Digit

\* what `cat <pid file>` can print
PidFileContents ==
    { <<>>, <<" ", "\n">>, <<"4", "2", "\n">>, <<"4", "x">> }

\* readNeo4jPID on the output of a successful cat
readNeo4jPID_Unchecked(output) ==
    LET pid == TrimSpace(output)
    IN IF pid = <<>>
       THEN [pid |-> <<>>, err |-> "neo4j pid file is empty"]
       ELSE [pid |-> pid, err |-> NoErr]
readNeo4jPID(output) ==
    LET pid == TrimSpace(output)
    IN IF pid = <<>>
       THEN [pid |-> <<>>, err |-> "neo4j pid file is empty"]
       ELSE IF ~AtoiOk(pid)
            THEN [pid |-> <<>>, err |-> "invalid pid"]
            ELSE [pid |-> pid, err |-> NoErr]

\* readNeo4jPID with the cat itself failing or not: (result, cat succeeded,
\* what cat printed)
ReadPIDOutcomes ==
    { <<[pid |-> <<>>, err |-> "failed to read neo4j pid file"], FALSE, <<>>>> }
    \cup { <<readNeo4jPID(c), TRUE, c>> : c \in PidFileContents }

\* return err from a database-level function
NReturn(e, at) ==
    /\ nErr' = e
    /\ pc' = at

StopSteps ==
    << "mkdir workdir", "uname -m", "selectWatchdogBinary",
       "writeEmbeddedWatchdog", "CopyTo watchdog", "chmod watchdog" >>
StopStepErr ==
    << "failed to prepare remote work directory",
       "failed to detect neo4j architecture",
       "unsupported architecture",
       "failed to write watchdog",
       "failed to deploy watchdog binary",
       "failed to mark watchdog executable" >>

\* stopNeo4jCommunity up to the deployed, executable helper binary
SN_Prepare ==
    /\ pc = "sn_prepare"
    /\ \E k \in 0..Len(StopSteps) :
        /\ trace' = LogRun(StopSteps, k)
        /\ IF k = 0
           THEN pc' = "sn_clear" /\ UNCHANGED nErr
           ELSE NReturn(StopStepErr[k], "sn_return")
    /\ UNCHANGED <<args, k8s, defers, retErr, edition, fs, app, db>>

\* rm -f of the readiness and log markers; a failure is only logged, and
\* then a marker that a previous run left behind is still there
SN_ClearMarkers ==
    /\ pc = "sn_clear"
    /\ \E ok \in BOOLEAN, stale \in BOOLEAN :
        /\ ok => ~stale
        /\ trace' = Log("rm markers", ok)
        /\ marker' = IF stale THEN "stale" ELSE "none"
    /\ pc' = "sn_launch"
    /\ UNCHANGED <<args, k8s, defers, errs, edition, fs, app, pidStr, neo4jProc,
                   watchdog,
                   elapsed, shared>>

\* launch the helper detached
SN_Launch ==
    /\ pc = "sn_launch"
    /\ \E ok \in BOOLEAN :
        /\ trace' = Log("start watchdog", ok)
        /\ watchdog' = ok
        /\ IF ok
           THEN pc' = "sn_wait_ready" /\ UNCHANGED nErr
           ELSE NReturn("failed to start watchdog", "sn_return")
    /\ UNCHANGED <<args, k8s, defers, retErr, edition, fs, app, pidStr, neo4jProc,
                   marker,
                   elapsed, shared>>

\* the stop signal goes out only when the readiness wait returned nil
KillAllowed_Always(readyOk) == TRUE
KillAllowed(readyOk) == readyOk

\* waitForRemoteFile(ready marker, neo4jWatchdogInitTimeout): the helper
\* may have written its marker by now; the wait succeeds only on a marker,
\* whoever wrote it; the event records the marker the wait ended on
SN_WaitReady ==
    /\ pc = "sn_wait_ready"
    /\ \E wrote \in BOOLEAN, ok \in BOOLEAN :
        /\ marker' = IF watchdog /\ wrote THEN "fresh" ELSE marker
        /\ ok => marker' # "none"
        /\ trace' = Append(trace, Ev("waitForRemoteFile", ok, marker'))
        /\ IF KillAllowed(ok)
           THEN pc' = "sn_kill" /\ UNCHANGED nErr
           ELSE NReturn("watchdog failed to initialize", "sn_return")
    /\ UNCHANGED <<args, k8s, defers, retErr, edition, fs, app, pidStr, neo4jProc,
                   watchdog,
                   elapsed, shared>>

\* kill <pid>
SN_Kill ==
    /\ pc = "sn_kill"
    /\ \E ok \in BOOLEAN :
        /\ trace' = Append(trace, Ev("kill", ok, pidStr))
        /\ IF ok
           THEN /\ neo4jProc' = "signalled"
                /\ pc' = "sn_wait_stopped"
                /\ UNCHANGED nErr
           ELSE /\ NReturn("failed to stop neo4j", "sn_return")
                /\ UNCHANGED neo4jProc
    /\ UNCHANGED <<args, k8s, defers, retErr, edition, fs, app, pidStr, marker,
                   watchdog,
                   elapsed, shared>>

\* waitForProcessStopped(pid, neo4jProcessStopTimeout)
SN_WaitStopped ==
    /\ pc = "sn_wait_stopped"
    /\ \E ok \in BOOLEAN :
        /\ trace' = Log("waitForProcessStopped", ok)
        /\ IF ok
           THEN /\ neo4jProc' = "stopped"
                /\ NReturn(NoErr, "sn_return")
           ELSE /\ NReturn("neo4j process did not stop", "sn_return")
                /\ UNCHANGED neo4jProc
    /\ UNCHANGED <<args, k8s, defers, retErr, edition, fs, app, pidStr, marker,
                   watchdog,
                   elapsed, shared>>

\* stopNeo4jCommunity returns to backupNeo4jCommunity or
\* restoreNeo4jCommunity
SN_Return ==
    /\ pc = "sn_return"
    /\ pc' = IF args.op = "CreateBackup"
             THEN "bc_stop_returned" ELSE "rc_stop_returned"
    /\ UNCHANGED <<args, k8s, defers, errs, edition, fs, app, db, trace>>

\* deferred resume: a failed kill -CONT becomes the result only when
\* there is no earlier error
ResumeErr_Overwrite(old, ok) ==
    IF ~ok THEN "failed to resume neo4j process" ELSE old
ResumeErr_Swallow(old, ok) == old
ResumeErr(old, ok) ==
    IF ~ok /\ old = NoErr THEN "failed to resume neo4j process" ELSE old

(***************************************************************************)
(* backupNeo4jCommunity                                                    *)
(***************************************************************************)

BC_ReadPID ==
    /\ pc = "bc_read_pid"
    /\ \E o \in ReadPIDOutcomes :
        /\ trace' = Append(trace, Ev("cat pid file", o[2], o[3]))
        /\ pidStr' = o[1].pid
        /\ IF o[1].err = NoErr
           THEN pc' = "sn_prepare" /\ UNCHANGED nErr
           ELSE NReturn(o[1].err, "bc_return")
    /\ UNCHANGED <<args, k8s, defers, retErr, edition, fs, app, neo4jProc, marker,
                   watchdog,
                   elapsed, shared>>

\* err = stopNeo4jCommunity(pidStr); if err != nil return err; defer resume
BC_StopReturned_NoDefer ==
    /\ pc = "bc_stop_returned"
    /\ pc' = IF nErr # NoErr THEN "bc_return" ELSE "bc_dump"
    /\ UNCHANGED <<args, k8s, defers, errs, edition, fs, app, db, trace>>
BC_StopReturned_DumpAnyway ==
    /\ pc = "bc_stop_returned"
    /\ defers' = <<"bc_resume">> \o defers
    /\ pc' = "bc_dump"
    /\ UNCHANGED <<args, k8s, errs, edition, fs, app, db, trace>>
BC_StopReturned ==
    /\ pc = "bc_stop_returned"
    /\ IF nErr # NoErr
       THEN pc' = "bc_return" /\ UNCHANGED defers
       ELSE /\ defers' = <<"bc_resume">> \o defers
            /\ pc' = "bc_dump"
    /\ UNCHANGED <<args, k8s, errs, edition, fs, app, db, trace>>

DumpSteps ==
    << "mkdir remote dump dir", "MkdirAll database", "neo4j-admin dump",
       "CopyFrom dump" >>
DumpStepErr ==
    << "failed to prepare remote dump directory",
       "failed to prepare local dump directory",
       "failed to dump neo4j database",
       "failed to copy neo4j dump" >>

\* the dump and its copy-out into <backupDir>/database
BC_Dump ==
    /\ pc = "bc_dump"
    /\ \E k \in 0..Len(DumpSteps) :
        /\ trace' = LogRun(DumpSteps, k)
        /\ IF k = 0
           THEN /\ \E c \in Contents : files' = (<<"database", 1>> :> c) @@ files
                /\ NReturn(NoErr, "bc_return")
           ELSE /\ NReturn(DumpStepErr[k], "bc_return")
                /\ UNCHANGED files
    /\ UNCHANGED <<args, k8s, defers, retErr, edition, metadata, workDir, archive,
                   app, db>>

\* deferred: remove the watchdog artifacts, kill -CONT <pid>
BC_DeferResume ==
    /\ pc = "bc_return"
    /\ defers # <<>> /\ Head(defers) = "bc_resume"
    /\ defers' = Tail(defers)
    /\ \E rmOk \in BOOLEAN, contOk \in BOOLEAN :
        /\ trace' = trace \o << Ev("rm watchdog artifacts", rmOk, <<>>),
                               Ev("kill -CONT", contOk, pidStr) >>
        /\ marker' = IF rmOk THEN "none" ELSE marker
        /\ neo4jProc' = IF contOk THEN "running" ELSE neo4jProc
        /\ nErr' = ResumeErr(nErr, contOk)
    /\ UNCHANGED <<args, k8s, pc, retErr, edition, fs, app, pidStr, watchdog,
                   elapsed, shared>>

BC_Return ==
    /\ pc = "bc_return"
    /\ defers = <<>> \/ Head(defers) # "bc_resume"
    /\ pc' = "cb_db_returned"
    /\ UNCHANGED <<args, k8s, defers, errs, edition, fs, app, db, trace>>

(***************************************************************************)
(* backupNeo4jEnterprise                                                   *)
(***************************************************************************)

BE_Mkdir ==
    /\ pc = "be_mkdir"
    /\ \E ok \in BOOLEAN :
        /\ trace' = Log("mkdir temp backup dir", ok)
        /\ IF ok
           THEN /\ defers' = <<"be_rm">> \o defers
                /\ pc' = "be_backup"
                /\ UNCHANGED nErr
           ELSE /\ NReturn("failed to create backup directory", "be_return")
                /\ UNCHANGED defers
    /\ UNCHANGED <<args, k8s, retErr, edition, fs, app, db>>

\* the online backup command and its copy-out
BE_Backup ==
    /\ pc = "be_backup"
    /\ \E k \in 0..2 :
        /\ trace' = LogRun(<<"neo4j-admin backup", "CopyFrom backup">>, k)
        /\ IF k = 0
           THEN /\ \E f \in [DbPaths -> Contents] : files' = f @@ files
                /\ NReturn(NoErr, "be_return")
           ELSE /\ NReturn(IF k = 1 THEN "failed to backup neo4j"
                           ELSE "failed to copy database backup", "be_return")
                /\ UNCHANGED files
    /\ UNCHANGED <<args, k8s, defers, retErr, edition, metadata, workDir, archive,
                   app, db>>

\* deferred: rm -rf of the temporary directory; a failure is only logged
BE_DeferRm ==
    /\ pc = "be_return"
    /\ defers # <<>> /\ Head(defers) = "be_rm"
    /\ defers' = Tail(defers)
    /\ trace' = Log("rm temp backup dir", TRUE)
    /\ UNCHANGED <<args, k8s, pc, errs, edition, fs, app, db>>

BE_Return ==
    /\ pc = "be_return"
    /\ defers = <<>> \/ Head(defers) # "be_rm"
    /\ pc' = "cb_db_returned"
    /\ UNCHANGED <<args, k8s, defers, errs, edition, fs, app, db, trace>>

(***************************************************************************)
(* RestoreBackup                                                           *)
(***************************************************************************)

RBReturn(e) ==
    /\ retErr' = e
    /\ pc' = "rb_return"

PreflightSteps ==
    << "Stat backupFile", "checkPrerequisites", "DetectEnvironment",
       "MkdirTemp" >>
PreflightErr ==
    << "backup file not found", "prerequisites", "environment",
       "failed to create temp directory" >>

\* the backup file exists, prerequisites, environment, temp directory
RB_Preflight ==
    /\ pc = "rb_preflight"
    /\ \E k \in 0..Len(PreflightSteps) :
        /\ (k = 1) = ~archive.present
        /\ trace' = LogRun(PreflightSteps, k)
        /\ IF k = 0
           THEN /\ workDir' = TRUE
                /\ defers' = <<"rb_remove_workdir">> \o defers
                /\ pc' = "rb_extract"
                /\ UNCHANGED retErr
           ELSE /\ RBReturn(PreflightErr[k])
                /\ UNCHANGED <<workDir, defers>>
    /\ UNCHANGED <<args, k8s, nErr, edition, metadata, files, archive, app, db>>

\* extractTarball(backupFile, workDir)
RB_Extract ==
    /\ pc = "rb_extract"
    /\ \/ /\ trace' = Log("extractTarball", FALSE)
          /\ RBReturn("failed to extract backup")
          /\ UNCHANGED files
       \/ /\ trace' = Log("extractTarball", TRUE)
          /\ files' = archive.entries
          /\ pc' = "rb_metadata"
          /\ UNCHANGED retErr
    /\ UNCHANGED <<args, k8s, defers, nErr, edition, metadata, workDir, archive,
                   app, db>>

MetadataSteps ==
    << "Stat metadata", "ReadFile metadata", "Unmarshal metadata" >>
MetadataErr ==
    << "invalid backup file: missing metadata", "failed to read metadata",
       "failed to parse metadata" >>

\* backup_information.json is present, readable and parseable
RB_Metadata_Lenient ==
    /\ pc = "rb_metadata"
    /\ \E k \in 0..Len(MetadataSteps) :
        /\ (k = 1) = (archive.metaState = "missing")
        /\ k \in {0, 3} => ((k = 3) = (archive.metaState = "garbage"))
        /\ trace' = LogRun(MetadataSteps, k)
        /\ metadata' = archive.metadata
        /\ pc' = "rb_edition"
        /\ UNCHANGED retErr
    /\ UNCHANGED <<args, k8s, defers, nErr, edition, files, workDir, archive,
                   app, db>>
RB_Metadata ==
    /\ pc = "rb_metadata"
    /\ \E k \in 0..Len(MetadataSteps) :
        /\ (k = 1) = (archive.metaState = "missing")
        /\ k \in {0, 3} => ((k = 3) = (archive.metaState = "garbage"))
        /\ trace' = LogRun(MetadataSteps, k)
        /\ IF k = 0
           THEN /\ metadata' = archive.metadata
                /\ pc' = "rb_edition"
                /\ UNCHANGED retErr
           ELSE /\ RBReturn(MetadataErr[k])
                /\ UNCHANGED metadata
    /\ UNCHANGED <<args, k8s, defers, nErr, edition, files, workDir, archive,
                   app, db>>

\* NewNeo4jEditionInfo(detectedEdition, detectionErr)
NewNeo4jEditionInfo(detected, failed) ==
    [Edition |-> detected,
     IsCommunity |-> ~failed /\ EqualFold(detected, neo4jEditionCommunity),
     DetectionErr |-> failed]

\* ResolveRestoreEdition: the edition whose restore procedure is used
ResolveRestoreEdition_CaseSensitive(info, backupEdition) ==
    IF info.DetectionErr
    THEN [edition |-> neo4jEditionCommunity, err |-> NoErr]
    ELSE IF backupEdition = neo4jEditionCommunity
            /\ info.Edition = neo4jEditionEnterprise
         THEN [edition |-> neo4jEditionCommunity, err |-> NoErr]
         ELSE IF backupEdition = neo4jEditionEnterprise
                 /\ info.Edition = neo4jEditionCommunity
              THEN [edition |-> <<>>,
                    err |-> "cannot restore Enterprise backup on Community edition Neo4j"]
              ELSE [edition |-> ToLower(info.Edition), err |-> NoErr]
ResolveRestoreEdition_NoFallback(info, backupEdition) ==
    LET b == ToLower(backupEdition)
        l == ToLower(info.Edition)
    IN IF info.DetectionErr
       THEN [edition |-> b, err |-> NoErr]
       ELSE IF b = neo4jEditionCommunity /\ l = neo4jEditionEnterprise
            THEN [edition |-> neo4jEditionCommunity, err |-> NoErr]
            ELSE IF b = neo4jEditionEnterprise /\ l = neo4jEditionCommunity
                 THEN [edition |-> <<>>,
                       err |-> "cannot restore Enterprise backup on Community edition Neo4j"]
                 ELSE [edition |-> l, err |-> NoErr]
ResolveRestoreEdition(info, backupEdition) ==
    LET b == ToLower(backupEdition)
        l == ToLower(info.Edition)
    IN IF info.DetectionErr
       THEN [edition |-> neo4jEditionCommunity, err |-> NoErr]
       ELSE IF b = neo4jEditionCommunity /\ l = neo4jEditionEnterprise
            THEN [edition |-> neo4jEditionCommunity, err |-> NoErr]
            ELSE IF b = neo4jEditionEnterprise /\ l = neo4jEditionCommunity
                 THEN [edition |-> <<>>,
                       err |-> "cannot restore Enterprise backup on Community edition Neo4j"]
                 ELSE [edition |-> l, err |-> NoErr]

\* detectNeo4jEdition, then ResolveRestoreEdition(metadata.Neo4jEdition)
RB_Edition ==
    /\ pc = "rb_edition"
    /\ \E failed \in BOOLEAN, e \in DetectedEditions :
        /\ failed => e = neo4jEditionCommunity
        /\ LET info == NewNeo4jEditionInfo(IF failed THEN <<>> ELSE e, failed)
               r == ResolveRestoreEdition(info, metadata.Neo4jEdition)
           IN /\ editionInfo' = info
              /\ trace' = Log("detectNeo4jEdition", ~failed)
              /\ neo4jEdition' = r.edition
              /\ IF r.err = NoErr
                 THEN pc' = "rb_validate_checksums" /\ UNCHANGED retErr
                 ELSE RBReturn(r.err)
    /\ UNCHANGED <<args, k8s, defers, nErr, fs, app, db>>

\* taskManagerIncluded: the component tag or the checksum key
taskManagerIncluded_TagOnly(meta) ==
    "task-manager-db" \in meta.Components
taskManagerIncluded(meta) ==
    \/ "task-manager-db" \in meta.Components
    \/ prefectDumpFilename \in DOMAIN meta.Checksums

\* validateBackupChecksums: the errors the pass over metadata.Checksums can
\* end with (map iteration order decides which one when there are several),
\* then the check of the workflow dump when it is going to be restored;
\* unreadable: the extracted files calculateSHA256 fails on
validateBackupChecksums_NoMissing(extracted, meta, excludeTM, unreadable) ==
    { "checksum mismatch" :
        p \in { q \in DOMAIN meta.Checksums \cap DOMAIN extracted :
                  /\ q # prefectDumpFilename
                  /\ calculateSHA256(extracted[q]) # meta.Checksums[q] } }
validateBackupChecksums_NoPrefect(extracted, meta, excludeTM, unreadable) ==
    { "missing backup file" :
        p \in { q \in DOMAIN meta.Checksums :
                  q # prefectDumpFilename /\ q \notin DOMAIN extracted } }
    \cup
    { "checksum mismatch" :
        p \in { q \in DOMAIN meta.Checksums \cap DOMAIN extracted :
                  /\ q # prefectDumpFilename
                  /\ calculateSHA256(extracted[q]) # meta.Checksums[q] } }
validateBackupChecksums(extracted, meta, excludeTM, unreadable) ==
    LET recorded == DOMAIN meta.Checksums \ {prefectDumpFilename}
        dbErrs ==
            { "missing backup file" : p \in recorded \ DOMAIN extracted }
            \cup
            { "failed to calculate checksum" :
                p \in recorded \cap DOMAIN extracted \cap unreadable }
            \cup
            { "checksum mismatch" :
                p \in { q \in (recorded \cap DOMAIN extracted) \ unreadable :
                          calculateSHA256(extracted[q]) # meta.Checksums[q] } }
    IN IF dbErrs # {} THEN dbErrs
       ELSE IF ~ ( /\ taskManagerIncluded(meta) /\ ~excludeTM
                   /\ prefectDumpFilename \in DOMAIN extracted )
       THEN {}
       ELSE IF prefectDumpFilename \notin DOMAIN meta.Checksums
       THEN { "missing checksum for prefect.dump in metadata" }
       ELSE IF prefectDumpFilename \in unreadable
       THEN { "failed to calculate checksum for prefect.dump" }
       ELSE IF calculateSHA256(extracted[prefectDumpFilename])
                 # meta.Checksums[prefectDumpFilename]
       THEN { "checksum mismatch for prefect.dump" }
       ELSE {}

\* if err := validateBackupChecksums(...); err != nil { return err }
RB_ValidateChecksums ==
    /\ pc = "rb_validate_checksums"
    /\ \E unreadable \in SUBSET DOMAIN files :
        LET bad == validateBackupChecksums(files, metadata,
                                           args.excludeTaskManager, unreadable)
        IN IF bad = {}
           THEN /\ trace' = Log("validateBackupChecksums", TRUE)
                /\ pc' = "rb_task_manager_check"
                /\ UNCHANGED retErr
           ELSE \E e \in bad :
                /\ trace' = Log("validateBackupChecksums", FALSE)
                /\ RBReturn(e)
    /\ UNCHANGED <<args, k8s, defers, nErr, edition, fs, app, db>>

prefectExists == prefectDumpFilename \in DOMAIN files
validatePrefect_IgnoreExclude ==
    taskManagerIncluded(metadata) /\ prefectExists
validatePrefect ==
    taskManagerIncluded(metadata) /\ ~args.excludeTaskManager /\ prefectExists

\* the metadata includes the workflow database but its dump is missing
RB_TaskManagerCheck_NoGate ==
    /\ pc = "rb_task_manager_check"
    /\ pc' = "rb_wipe"
    /\ UNCHANGED <<args, k8s, defers, errs, edition, fs, app, db, trace>>
RB_TaskManagerCheck ==
    /\ pc = "rb_task_manager_check"
    /\ IF taskManagerIncluded(metadata) /\ ~prefectExists
          /\ ~args.excludeTaskManager
       THEN RBReturn("backup metadata includes task manager database but prefect.dump is missing")
       ELSE pc' = "rb_wipe" /\ UNCHANGED retErr
    /\ UNCHANGED <<args, k8s, defers, nErr, edition, fs, app, db, trace>>

\* wipeTransientData()
RB_Wipe ==
    /\ pc = "rb_wipe"
    /\ trace' = Log("wipeTransientData", TRUE)
    /\ pc' = "rb_stop_app"
    /\ UNCHANGED <<args, k8s, defers, errs, edition, fs, app, db>>

\* stopAppContainers(); an error returns without restarting anything
RB_StopApp ==
    /\ pc = "rb_stop_app"
    /\ \E o \in StopOutcomes(running) :
        /\ stoppedServices' = o[1]
        /\ running' = running \ o[1]
        /\ trace' = Log("stopAppContainers", o[2])
        /\ IF o[2]
           THEN pc' = "rb_restore_postgres" /\ UNCHANGED retErr
           ELSE RBReturn("failed to stop services")
    /\ UNCHANGED <<args, k8s, defers, nErr, edition, fs, servicesToRestart,
                   startCalls, db>>

\* restorePostgreSQL(workDir) when the dump is to be restored
RB_RestorePostgres ==
    /\ pc = "rb_restore_postgres"
    /\ IF ~validatePrefect
       THEN /\ pc' = "rb_restart_deps"
            /\ UNCHANGED <<retErr, trace>>
       ELSE \E ok \in BOOLEAN :
            /\ trace' = Log("restorePostgreSQL", ok)
            /\ IF ok
               THEN pc' = "rb_restart_deps" /\ UNCHANGED retErr
               ELSE RBReturn("failed to restore task manager database")
    /\ UNCHANGED <<args, k8s, defers, nErr, edition, fs, app, db>>

\* restartDependencies(), then restoreNeo4j(workDir, neo4jEdition, ...)
RB_RestartDeps ==
    /\ pc = "rb_restart_deps"
    /\ \E ok \in BOOLEAN :
        /\ trace' = Log("restartDependencies", ok)
        /\ IF ok
           THEN /\ pc' = "rn_copy_to"
                /\ nErr' = NoErr
                /\ UNCHANGED retErr
           ELSE /\ RBReturn("failed to restart dependencies")
                /\ UNCHANGED nErr
    /\ UNCHANGED <<args, k8s, defers, edition, fs, app, db>>

\* if err := iops.restoreNeo4j(...); err != nil { return err }
RB_AfterDatabase_StartAnyway ==
    /\ pc = "rb_db_returned"
    /\ pc' = "rb_start_services"
    /\ retErr' = nErr
    /\ UNCHANGED <<args, k8s, defers, nErr, edition, fs, app, db, trace>>
RB_AfterDatabase ==
    /\ pc = "rb_db_returned"
    /\ IF nErr # NoErr
       THEN RBReturn(nErr)
       ELSE pc' = "rb_start_services" /\ UNCHANGED retErr
    /\ UNCHANGED <<args, k8s, defers, nErr, edition, fs, app, db, trace>>

\* StartServices("infrahub-server", "task-worker")
RB_StartServices ==
    /\ pc = "rb_start_services"
    /\ \E r \in StartOutcomes(running, {"infrahub-server", "task-worker"}) :
        /\ running' = r[1]
        /\ trace' = Log("StartServices", r[2])
        /\ IF r[2]
           THEN RBReturn(NoErr)
           ELSE RBReturn("failed to restart infrahub services")
    /\ UNCHANGED <<args, k8s, defers, nErr, edition, fs, stoppedServices,
                   servicesToRestart, startCalls, db>>

\* deferred: os.RemoveAll(workDir)
RB_DeferRemoveWorkDir ==
    /\ pc = "rb_return"
    /\ defers # <<>> /\ Head(defers) = "rb_remove_workdir"
    /\ defers' = Tail(defers)
    /\ workDir' = FALSE
    /\ files' = <<>>
    /\ trace' = Log("RemoveAll workDir", TRUE)
    /\ UNCHANGED <<args, k8s, pc, errs, edition, metadata, archive, app, db>>

RB_Done ==
    /\ pc = "rb_return"
    /\ defers = <<>>
    /\ pc' = "done"
    /\ UNCHANGED <<args, k8s, defers, errs, edition, fs, app, db, trace>>

(***************************************************************************)
(* restoreNeo4j, restoreNeo4jCommunity, restoreNeo4jEnterprise             *)
(***************************************************************************)

\* CopyTo of the extracted database directory; defer rm -rf of it
RN_CopyTo ==
    /\ pc = "rn_copy_to"
    /\ \E ok \in BOOLEAN :
        /\ trace' = Log("CopyTo backup", ok)
        /\ IF ok
           THEN /\ defers' = <<"rn_rm">> \o defers
                /\ pc' = "rn_chown"
                /\ UNCHANGED nErr
           ELSE /\ NReturn("failed to copy backup to container", "rn_return")
                /\ UNCHANGED defers
    /\ UNCHANGED <<args, k8s, retErr, edition, fs, app, db>>

\* chown, then the procedure of the reconciled edition
RN_Chown ==
    /\ pc = "rn_chown"
    /\ \E ok \in BOOLEAN :
        /\ trace' = Log("chown backup", ok)
        /\ IF ok
           THEN /\ pc' = IF ToLower(neo4jEdition) = neo4jEditionCommunity
                         THEN "rc_read_pid" ELSE "re_run"
                /\ UNCHANGED nErr
           ELSE NReturn("failed to change backup ownership", "rn_return")
    /\ UNCHANGED <<args, k8s, defers, retErr, edition, fs, app, db>>

RN_DeferRm ==
    /\ pc = "rn_return"
    /\ defers # <<>> /\ Head(defers) = "rn_rm"
    /\ defers' = Tail(defers)
    /\ trace' = Log("rm temp backup dir", TRUE)
    /\ UNCHANGED <<args, k8s, pc, errs, edition, fs, app, db>>

RN_Return ==
    /\ pc = "rn_return"
    /\ defers = <<>> \/ Head(defers) # "rn_rm"
    /\ pc' = "rb_db_returned"
    /\ UNCHANGED <<args, k8s, defers, errs, edition, fs, app, db, trace>>

RC_ReadPID ==
    /\ pc = "rc_read_pid"
    /\ \E o \in ReadPIDOutcomes :
        /\ trace' = Append(trace, Ev("cat pid file", o[2], o[3]))
        /\ pidStr' = o[1].pid
        /\ IF o[1].err = NoErr
           THEN pc' = "sn_prepare" /\ UNCHANGED nErr
           ELSE NReturn(o[1].err, "rc_return")
    /\ UNCHANGED <<args, k8s, defers, retErr, edition, fs, app, neo4jProc, marker,
                   watchdog,
                   elapsed, shared>>

\* err = stopNeo4jCommunity(pidStr); if err != nil return err; defer resume
RC_StopReturned ==
    /\ pc = "rc_stop_returned"
    /\ IF nErr # NoErr
       THEN pc' = "rc_return" /\ UNCHANGED defers
       ELSE /\ defers' = <<"rc_resume">> \o defers
            /\ pc' = "rc_load"
    /\ UNCHANGED <<args, k8s, errs, edition, fs, app, db, trace>>

\* the commands a restore issues, with the migration only on request
WithMigrate(before, after, migrate) ==
    before \o (IF migrate THEN <<"neo4j-admin migrate">> ELSE <<>>) \o after

LoadSteps(migrate) == WithMigrate(<<"neo4j-admin load">>, <<>>, migrate)
LoadErr(name) ==
    IF name = "neo4j-admin load" THEN "failed to load neo4j dump"
    ELSE "failed to migrate neo4j to block format"

\* the load of the dump and the optional format migration
RC_Load ==
    /\ pc = "rc_load"
    /\ LET steps == LoadSteps(args.restoreMigrateFormat)
       IN \E k \in 0..Len(steps) :
           /\ trace' = LogRun(steps, k)
           /\ IF k = 0
              THEN NReturn(NoErr, "rc_return")
              ELSE NReturn(LoadErr(steps[k]), "rc_return")
    /\ UNCHANGED <<args, k8s, defers, retErr, edition, fs, app, db>>

\* deferred: rm -rf of the temporary data, remove the watchdog artifacts,
\* kill -CONT <pid>
RC_DeferResume ==
    /\ pc = "rc_return"
    /\ defers # <<>> /\ Head(defers) = "rc_resume"
    /\ defers' = Tail(defers)
    /\ \E rmOk \in BOOLEAN, contOk \in BOOLEAN :
        /\ trace' = trace \o << Ev("rm temp backup dir", TRUE, <<>>),
                               Ev("rm watchdog artifacts", rmOk, <<>>),
                               Ev("kill -CONT", contOk, pidStr) >>
        /\ marker' = IF rmOk THEN "none" ELSE marker
        /\ neo4jProc' = IF contOk THEN "running" ELSE neo4jProc
        /\ nErr' = ResumeErr(nErr, contOk)
    /\ UNCHANGED <<args, k8s, pc, retErr, edition, fs, app, pidStr, watchdog,
                   elapsed, shared>>

RC_Return ==
    /\ pc = "rc_return"
    /\ defers = <<>> \/ Head(defers) # "rc_resume"
    /\ pc' = "rn_return"
    /\ UNCHANGED <<args, k8s, defers, errs, edition, fs, app, db, trace>>

EnterpriseSteps_StartEarly(migrate) ==
    WithMigrate(<<"stop database", "neo4j-admin restore">>,
                <<"start database", "restore metadata">>, migrate)
EnterpriseSteps(migrate) ==
    WithMigrate(<<"stop database", "neo4j-admin restore">>,
                <<"restore metadata", "start database">>, migrate)
EnterpriseErr(name) ==
    CASE name = "stop database" -> "failed to stop neo4j database"
      [] name = "neo4j-admin restore" -> "failed to restore neo4j"
      [] name = "neo4j-admin migrate" -> "failed to migrate neo4j to block format"
      [] name = "restore metadata" -> "failed to restore neo4j metadata"
      [] OTHER -> "failed to start neo4j database"

\* restoreNeo4jEnterprise: each command runs only after the one before
RE_Run_GuaranteedStart ==
    /\ pc = "re_run"
    /\ LET steps == EnterpriseSteps(args.restoreMigrateFormat)
       IN \E k \in 0..Len(steps) :
           /\ trace' = IF k \in 2..(Len(steps) - 1)
                       THEN LogRun(steps, k)
                              \o << Ev("start database", TRUE, <<>>) >>
                       ELSE LogRun(steps, k)
           /\ IF k = 0
              THEN NReturn(NoErr, "rn_return")
              ELSE NReturn(EnterpriseErr(steps[k]), "rn_return")
    /\ UNCHANGED <<args, k8s, defers, retErr, edition, fs, app, db>>
RE_Run ==
    /\ pc = "re_run"
    /\ LET steps == EnterpriseSteps(args.restoreMigrateFormat)
       IN \E k \in 0..Len(steps) :
           /\ trace' = LogRun(steps, k)
           /\ IF k = 0
              THEN NReturn(NoErr, "rn_return")
              ELSE NReturn(EnterpriseErr(steps[k]), "rn_return")
    /\ UNCHANGED <<args, k8s, defers, retErr, edition, fs, app, db>>

(***************************************************************************)
(* The run                                                                 *)
(***************************************************************************)

Next ==
    \/ CB_Preflight \/ CB_DetectEdition \/ CB_TaskCheck \/ CB_StopApp
    \/ CB_MkTemp \/ CB_MkDirs \/ CB_BackupDatabase \/ CB_AfterDatabase
    \/ CB_TaskManager \/ CB_Checksums \/ CB_WriteMetadata \/ CB_Tarball
    \/ CB_Upload \/ CB_DeferRemoveWorkDir \/ CB_DeferRestart \/ CB_Done
    \/ SN_Prepare \/ SN_ClearMarkers \/ SN_Launch \/ SN_WaitReady
    \/ SN_Kill \/ SN_WaitStopped \/ SN_Return
    \/ BC_ReadPID \/ BC_StopReturned \/ BC_Dump \/ BC_DeferResume
    \/ BC_Return
    \/ BE_Mkdir \/ BE_Backup \/ BE_DeferRm \/ BE_Return
    \/ RB_Preflight \/ RB_Extract \/ RB_Metadata \/ RB_Edition
    \/ RB_ValidateChecksums \/ RB_TaskManagerCheck \/ RB_Wipe
    \/ RB_StopApp \/ RB_RestorePostgres \/ RB_RestartDeps
    \/ RB_AfterDatabase \/ RB_StartServices \/ RB_DeferRemoveWorkDir
    \/ RB_Done
    \/ RN_CopyTo \/ RN_Chown \/ RN_DeferRm \/ RN_Return
    \/ RC_ReadPID \/ RC_StopReturned \/ RC_Load \/ RC_DeferResume
    \/ RC_Return
    \/ RE_Run

Spec == Init /\ [][Next]_vars

(***************************************************************************)
(* Properties                                                              *)
(***************************************************************************)

Before(i, j) == i < j

\* a kill <pid> was delivered and no kill -CONT <pid> was issued after it
StopWithoutCont ==
    \E i \in DOMAIN trace :
        /\ trace[i].ev = "kill" /\ trace[i].ok
        /\ ~\E j \in DOMAIN trace :
               /\ Before(i, j)
               /\ trace[j].ev = "kill -CONT"
               /\ trace[j].arg = trace[i].arg

\* C1: when CreateBackup or RestoreBackup has returned, every stop signal
\* sent to the database PID was followed by a continue signal to that PID,
\* whatever step failed in between.
C1_NeverLeftSuspended == pc = "done" => ~StopWithoutCont

\* positions inside backupNeo4jCommunity / restoreNeo4jCommunity (and the
\* stopNeo4jCommunity they call)
InCommunity ==
    pc \in { "bc_read_pid", "bc_stop_returned", "bc_dump", "bc_return",
             "rc_read_pid", "rc_stop_returned", "rc_load", "rc_return",
             "sn_prepare", "sn_clear", "sn_launch", "sn_wait_ready",
             "sn_kill", "sn_wait_stopped", "sn_return" }

\* C2: once stopNeo4jCommunity has returned success, backupNeo4jCommunity
\* and restoreNeo4jCommunity do not return before a kill -CONT was issued
\* to the PID that received the stop signal, on every exit path.
C2_ResumeOnEveryExit ==
    (Succeeded("waitForProcessStopped") /\ ~InCommunity) => ~StopWithoutCont

\* a failed copy-out of the dump, and the process was still resumed
C2_Witness ==
    /\ pc = "cb_db_returned"
    /\ Succeeded("waitForProcessStopped")
    /\ Failed("CopyFrom dump")
    /\ Issued("kill -CONT")

Destructive ==
    { "wipeTransientData", "stopAppContainers", "restorePostgreSQL",
      "restartDependencies", "CopyTo backup", "neo4j-admin load",
      "neo4j-admin restore", "kill" }
NoDestructiveStep == \A i \in DOMAIN trace : trace[i].ev \notin Destructive

\* a checksum recorded for a file other than the workflow dump has no
\* matching entry in the archive
RecordedFileBad(a) ==
    \E p \in DOMAIN a.metadata.Checksums \ {prefectDumpFilename} :
        \/ p \notin DOMAIN a.entries
        \/ calculateSHA256(a.entries[p]) # a.metadata.Checksums[p]

\* C3: when a file recorded in the metadata (other than the workflow dump)
\* is missing from the archive or has another digest, RestoreBackup runs no
\* destructive step and returns an error.
C3_ChecksumGate ==
    ( /\ args.op = "RestoreBackup"
      /\ archive.present /\ archive.metaState = "ok"
      /\ RecordedFileBad(archive) )
    => /\ NoDestructiveStep
       /\ pc = "done" => retErr # NoErr

\* the validation ran and rejected a recorded file that is missing
C3_Witness ==
    /\ pc = "done"
    /\ Failed("validateBackupChecksums")
    /\ RecordedFileBad(archive)
    /\ retErr = "missing backup file"

\* C4: an enterprise backup on a target detected as community is refused
\* with the incompatibility error before any destructive step.
C4_EnterpriseOnCommunity ==
    ( /\ args.op = "RestoreBackup"
      /\ Succeeded("detectNeo4jEdition")
      /\ ToLower(metadata.Neo4jEdition) = neo4jEditionEnterprise
      /\ ToLower(editionInfo.Edition) = neo4jEditionCommunity )
    => /\ NoDestructiveStep
       /\ pc \notin { "rb_validate_checksums", "rb_task_manager_check",
                      "rb_wipe" }
       /\ pc = "done" =>
            retErr = "cannot restore Enterprise backup on Community edition Neo4j"

C4_Witness ==
    /\ pc = "done"
    /\ Succeeded("detectNeo4jEdition")
    /\ metadata.Neo4jEdition # neo4jEditionEnterprise
    /\ ToLower(metadata.Neo4jEdition) = neo4jEditionEnterprise
    /\ editionInfo.IsCommunity
    /\ retErr = "cannot restore Enterprise backup on Community edition Neo4j"

StopPreparation ==
    { StopSteps[i] : i \in DOMAIN StopSteps } \cup
    { "start watchdog", "waitForRemoteFile" }

\* C6: the stop signal is issued only after the readiness wait succeeded;
\* when the marker does not appear, or the helper cannot be deployed or
\* launched, the run ends in an error and no stop signal was issued.
C6_StopOnlyWhenReady ==
    /\ \A i \in DOMAIN trace :
         trace[i].ev = "kill" =>
           \E j \in DOMAIN trace :
             /\ Before(j, i)
             /\ trace[j].ev = "waitForRemoteFile" /\ trace[j].ok
    /\ (\E i \in DOMAIN trace :
            ~trace[i].ok /\ trace[i].ev \in StopPreparation) =>
         /\ ~Issued("kill")
         /\ neo4jProc = "running"
         /\ pc = "done" => retErr # NoErr

\* the readiness wait timed out and the run returned its error
C6_Witness ==
    /\ pc = "done"
    /\ Failed("waitForRemoteFile")
    /\ retErr = "watchdog failed to initialize"
    /\ ~Issued("kill")

\* the sensitive operation between stop and resume went through
BodySteps ==
    { DumpSteps[i] : i \in DOMAIN DumpSteps } \cup
    { "neo4j-admin load", "neo4j-admin migrate" }
BodyFailed == \E n \in BodySteps : Failed(n)

ResumeFailed == "failed to resume neo4j process"

\* C7: in the community backup and restore paths a failed kill -CONT after
\* a successful dump/load makes the function return the 'failed to resume'
\* error; an error set before the deferred resume is returned unchanged.
C7_FirstErrorWins ==
    /\ []( (Issued("kill -CONT") /\ ~InCommunity) =>
             /\ (Failed("kill -CONT") /\ ~BodyFailed) => nErr = ResumeFailed
             /\ BodyFailed => nErr \notin {NoErr, ResumeFailed}
             /\ (~Failed("kill -CONT") /\ ~BodyFailed) => nErr = NoErr )
    /\ [][ (pc \in {"bc_return", "rc_return"} /\ nErr # NoErr)
             => nErr' = nErr ]_vars

\* the dump was copied out, the resume failed, and that is the result
C7_Witness ==
    /\ pc = "cb_db_returned"
    /\ Succeeded("CopyFrom dump")
    /\ Failed("kill -CONT")
    /\ nErr = ResumeFailed

\* the services some startAppContainers call was given
PassedToStart == UNION { startCalls[i] : i \in DOMAIN startCalls }

\* C8: when a community-edition CreateBackup has returned, every service
\* stopAppContainers reported as stopped was passed to startAppContainers.
C8_StoppedAreRestarted ==
    (args.op = "CreateBackup" /\ pc = "done") =>
        stoppedServices \subseteq PassedToStart

\* services were stopped, the archive could not be created, and the
\* services were handed to startAppContainers all the same
C8_Witness ==
    /\ args.op = "CreateBackup" /\ pc = "done"
    /\ stoppedServices = AllServices
    /\ retErr = "failed to create archive"
    /\ stoppedServices \subseteq PassedToStart

RestartFailed == "failed to restart services after backup"

\* every step of the backup proper succeeded
BackupStepsOk ==
    /\ Succeeded("createTarball")
    /\ args.S3Upload => Succeeded("uploadBackupToS3")

\* C9: in a community-edition CreateBackup, when every backup step
\* succeeded and the deferred restart failed, the result is the 'failed to
\* restart services' error and the archive is in place; an error set
\* before the deferred restart is returned unchanged.
C9_RestartFailureReported ==
    /\ []( ( /\ args.op = "CreateBackup" /\ pc = "done"
             /\ Succeeded("stopAppContainers")
             /\ Failed("startAppContainers") ) =>
             /\ BackupStepsOk => (retErr = RestartFailed /\ archive.present)
             /\ ~BackupStepsOk => retErr \notin {NoErr, RestartFailed} )
    /\ [][ (pc = "cb_return" /\ retErr # NoErr) => retErr' = retErr ]_vars

C9_Witness ==
    /\ args.op = "CreateBackup" /\ pc = "done"
    /\ editionInfo.IsCommunity
    /\ Succeeded("createTarball")
    /\ Failed("startAppContainers")
    /\ retErr = RestartFailed
    /\ archive.present

\* the database backup returned nil
DatabaseBackupOk ==
    \/ Succeeded("CopyFrom backup")
    \/ Succeeded("CopyFrom dump") /\ Succeeded("kill -CONT")

StagingErrors ==
    { DumpStepErr[i] : i \in DOMAIN DumpStepErr } \cup
    { "failed to backup neo4j", "failed to copy database backup",
      "failed to create backup directory", ResumeFailed,
      "failed to backup task manager database",
      "failed to calculate Neo4j backup checksums",
      "could not access Prefect DB dump",
      "failed to calculate Prefect DB checksum", "failed to marshal metadata",
      "failed to write metadata", "failed to create archive" }

\* C10: CreateBackup leaves an archive at the backup path only when the
\* database backup, the workflow dump, the checksums, the metadata and
\* the archive creation all succeeded; a run that failed in one of them
\* leaves the backup directory without a new archive.
C10_NoPartialArchive ==
    args.op = "CreateBackup" =>
        /\ archive.present =>
             /\ DatabaseBackupOk
             /\ ~args.excludeTaskManager => Succeeded("backupTaskManagerDB")
             /\ Succeeded("calculateBackupChecksums")
             /\ Succeeded("WriteFile metadata")
             /\ Succeeded("createTarball")
        /\ (pc = "done" /\ retErr \in StagingErrors) => ~archive.present

\* the dump failed after staging began and nothing is at the backup path
C10_Witness ==
    /\ args.op = "CreateBackup" /\ pc = "done"
    /\ Succeeded("MkdirTemp")
    /\ retErr = "failed to dump neo4j database"
    /\ ~archive.present

(***************************************************************************)
(* Edition reconciliation on its own: ResolveRestoreEdition applied to     *)
(* every recorded spelling and every live spelling.                        *)
(***************************************************************************)

\* spellings of the two edition names
EditionSpellings ==
    { neo4jEditionCommunity,
      <<"C","o","m","m","u","n","i","t","y">>,
      <<"C","O","M","M","U","N","I","T","Y">>,
      <<"c","o","m","m","U","n","i","t","y">>,
      neo4jEditionEnterprise,
      <<"E","n","t","e","r","p","r","i","s","e">>,
      <<"E","N","T","E","R","P","R","I","S","E">>,
      <<"e","n","t","e","r","P","r","i","s","e">> }

\* what the neo4jEdition field of a metadata file may hold
RecordedSpellings ==
    EditionSpellings \cup
    { <<>>, <<"a","u","r","a">>,
      <<"c","o","m","m","u","n","i","t","y"," ">> }

InitEdition ==
    /\ args = [op |-> "RestoreBackup", force |-> FALSE,
               excludeTaskManager |-> FALSE, restoreMigrateFormat |-> FALSE,
               S3Upload |-> FALSE]
    /\ pc = "resolve"
    /\ defers = <<>>
    /\ retErr = NoErr
    /\ nErr = NoErr
    /\ editionInfo = NoEdition
    /\ neo4jEdition = <<>>
    /\ metadata \in { [NoMetadata EXCEPT !.Neo4jEdition = b] :
                        b \in RecordedSpellings }
    /\ files = <<>>
    /\ workDir = FALSE
    /\ archive = NoArchive
    /\ running = AllServices
    /\ stoppedServices = {}
    /\ servicesToRestart = {}
    /\ startCalls = <<>>
    /\ pidStr = <<>>
    /\ neo4jProc = "running"
    /\ marker = "none"
    /\ watchdog = FALSE
    /\ elapsed = 0
    /\ remote = <<>>
    /\ runs = <<>>
    /\ K8sIdle
    /\ trace = <<>>

\* editionInfo.ResolveRestoreEdition(metadata.Neo4jEdition)
Resolve ==
    /\ pc = "resolve"
    /\ \E failed \in BOOLEAN, e \in EditionSpellings :
        /\ failed => e = neo4jEditionCommunity
        /\ LET info == NewNeo4jEditionInfo(IF failed THEN <<>> ELSE e, failed)
               r == ResolveRestoreEdition(info, metadata.Neo4jEdition)
           IN /\ editionInfo' = info
              /\ neo4jEdition' = r.edition
              /\ retErr' = r.err
    /\ pc' = "resolved"
    /\ UNCHANGED <<args, k8s, defers, nErr, fs, app, db, trace>>

NextEdition == Resolve

SpecEdition == InitEdition /\ [][NextEdition]_vars

\* the recorded and the live edition, compared without regard to case
RecordedIs(name) == EqualFold(metadata.Neo4jEdition, name)
LiveIs(name) == EqualFold(editionInfo.Edition, name)

\* C5: for a recorded edition b and a detected live edition l, compared
\* case-insensitively, reconciliation yields community when b is community
\* and l is enterprise, an error when b is enterprise and l is community,
\* and l otherwise; when l equals b the result is the recorded edition.
C5_EditionReconciliation ==
    (pc = "resolved" /\ ~editionInfo.DetectionErr) =>
        /\ (RecordedIs(neo4jEditionCommunity) /\ LiveIs(neo4jEditionEnterprise))
             => (retErr = NoErr /\ neo4jEdition = neo4jEditionCommunity)
        /\ (RecordedIs(neo4jEditionEnterprise) /\ LiveIs(neo4jEditionCommunity))
             => retErr # NoErr
        /\ ~ \/ RecordedIs(neo4jEditionCommunity) /\ LiveIs(neo4jEditionEnterprise)
             \/ RecordedIs(neo4jEditionEnterprise) /\ LiveIs(neo4jEditionCommunity)
             => (retErr = NoErr /\ EqualFold(neo4jEdition, editionInfo.Edition))
        /\ EqualFold(editionInfo.Edition, metadata.Neo4jEdition)
             => (retErr = NoErr
                 /\ EqualFold(neo4jEdition, metadata.Neo4jEdition))

\* a capitalised recorded edition met the same live edition in lower case
C5_Witness ==
    /\ pc = "resolved"
    /\ metadata.Neo4jEdition = <<"E","n","t","e","r","p","r","i","s","e">>
    /\ editionInfo.Edition = neo4jEditionEnterprise
    /\ ~editionInfo.DetectionErr
    /\ neo4jEdition = neo4jEditionEnterprise
    /\ retErr = NoErr

\* the steps of a restore that change the deployment
LiveSteps == Destructive \cup {"StartServices"}
NoLiveStep == \A i \in DOMAIN trace : trace[i].ev \notin LiveSteps

\* C11: when extraction fails, backup_information.json is absent from the
\* extracted archive, or the metadata cannot be parsed, RestoreBackup
\* returns that error and has wiped nothing, stopped no service and
\* touched no database.
C11_InvalidArchiveRejected ==
    args.op = "RestoreBackup" =>
        /\ ( \/ Failed("extractTarball")
             \/ Failed("Stat metadata")
             \/ Failed("ReadFile metadata")
             \/ Failed("Unmarshal metadata") )
           => (NoLiveStep /\ retErr # NoErr)
        /\ (pc = "done" /\ Failed("extractTarball"))
           => retErr = "failed to extract backup"
        /\ ( /\ pc = "done" /\ Succeeded("extractTarball")
             /\ archive.metaState = "missing" )
           => retErr = "invalid backup file: missing metadata"
        /\ ( /\ pc = "done" /\ Succeeded("ReadFile metadata")
             /\ archive.metaState = "garbage" )
           => retErr = "failed to parse metadata"

\* the archive was extracted and its metadata did not parse
C11_Witness ==
    /\ pc = "done"
    /\ Succeeded("extractTarball")
    /\ Failed("Unmarshal metadata")
    /\ retErr = "failed to parse metadata"
    /\ NoLiveStep

\* the metadata tells, by one of the two signs, that the workflow
\* database is in the backup
RecordsTaskManager(meta) ==
    \/ "task-manager-db" \in meta.Components
    \/ prefectDumpFilename \in DOMAIN meta.Checksums

\* C12: when the metadata includes the workflow database by the component
\* tag or by a prefect.dump checksum key, the dump is not in the archive
\* and exclusion was not requested, RestoreBackup returns an error with
\* no wipe, no stop and no service start.
C12_MissingWorkflowDump ==
    ( /\ args.op = "RestoreBackup"
      /\ archive.present /\ archive.metaState = "ok"
      /\ RecordsTaskManager(archive.metadata)
      /\ prefectDumpFilename \notin DOMAIN archive.entries
      /\ ~args.excludeTaskManager )
    => /\ NoLiveStep
       /\ pc = "done" => retErr # NoErr

\* only the checksum key records the workflow database, the dump is
\* missing, and the presence check is what ended the run
C12_Witness ==
    /\ pc = "done"
    /\ "task-manager-db" \notin archive.metadata.Components
    /\ prefectDumpFilename \in DOMAIN archive.metadata.Checksums
    /\ prefectDumpFilename \notin DOMAIN archive.entries
    /\ retErr = "backup metadata includes task manager database but prefect.dump is missing"
    /\ NoLiveStep

\* C13: when RestoreBackup fails in the database restore after the
\* application services were stopped, it returns the error of the failing
\* step, never starts infrahub-server or task-worker, and leaves them
\* stopped.
C13_NoRestartAfterFailedRestore ==
    ( /\ args.op = "RestoreBackup" /\ pc = "done"
      /\ Succeeded("stopAppContainers")
      /\ (Failed("restorePostgreSQL") \/ nErr # NoErr) )
    => /\ retErr # NoErr
       /\ nErr # NoErr => retErr = nErr
       /\ Failed("restorePostgreSQL")
            => retErr = "failed to restore task manager database"
       /\ ~Issued("StartServices")
       /\ running \cap AllServices = {}

\* the load failed with the services stopped
C13_Witness ==
    /\ args.op = "RestoreBackup" /\ pc = "done"
    /\ Succeeded("stopAppContainers")
    /\ Failed("neo4j-admin load")
    /\ retErr = "failed to load neo4j dump"
    /\ running = {}

EnterpriseRestoreSteps ==
    { "stop database", "neo4j-admin restore", "restore metadata",
      "start database" }

\* C14: when the edition probe fails in RestoreBackup the run goes on
\* with the community procedure whatever the metadata records: no
\* incompatibility error, no enterprise restore command.
C14_RestoreProbeFailure ==
    (args.op = "RestoreBackup" /\ Failed("detectNeo4jEdition")) =>
        /\ neo4jEdition = neo4jEditionCommunity
        /\ retErr # "cannot restore Enterprise backup on Community edition Neo4j"
        /\ trace[Len(trace)].ev = "detectNeo4jEdition"
             => (pc = "rb_validate_checksums" /\ retErr = NoErr)
        /\ pc # "re_run"
        /\ \A i \in DOMAIN trace : trace[i].ev \notin EnterpriseRestoreSteps

\* an enterprise backup is loaded the community way after a failed probe
C14_Witness ==
    /\ args.op = "RestoreBackup"
    /\ Failed("detectNeo4jEdition")
    /\ EqualFold(metadata.Neo4jEdition, neo4jEditionEnterprise)
    /\ Succeeded("neo4j-admin load")

CommunityBackupSteps ==
    { StopSteps[i] : i \in DOMAIN StopSteps } \cup
    { "stopAppContainers", "cat pid file", "rm markers", "start watchdog",
      "waitForRemoteFile", "kill", "waitForProcessStopped", "kill -CONT",
      "neo4j-admin dump" }

\* C15: when the edition probe fails in CreateBackup the run goes on as
\* non-community: no application service is stopped, no watchdog is
\* deployed, no signal is sent, and the online backup command is the one
\* that runs.
C15_BackupProbeFailure ==
    (args.op = "CreateBackup" /\ Failed("detectNeo4jEdition")) =>
        /\ \A i \in DOMAIN trace : trace[i].ev \notin CommunityBackupSteps
        /\ running = AllServices
        /\ neo4jProc = "running" /\ ~watchdog
        /\ trace[Len(trace)].ev = "detectNeo4jEdition"
             => (pc \notin {"cb_return", "done"} /\ retErr = NoErr)
        /\ pc # "bc_read_pid"
        /\ pc = "cb_task_manager" => Succeeded("CopyFrom backup")

\* the online backup ran after a failed probe
C15_Witness ==
    /\ args.op = "CreateBackup"
    /\ Failed("detectNeo4jEdition")
    /\ Succeeded("neo4j-admin backup")
    /\ running = AllServices

\* the PID file could not be read, or what it holds is empty after
\* trimming or is not an integer
PidFileRejected ==
    \E i \in DOMAIN trace :
        /\ trace[i].ev = "cat pid file"
        /\ \/ ~trace[i].ok
           \/ TrimSpace(trace[i].arg) = <<>>
           \/ \E j \in DOMAIN TrimSpace(trace[i].arg) :
                TrimSpace(trace[i].arg)[j] \notin Digit

WatchdogAndSignalSteps ==
    { StopSteps[i] : i \in DOMAIN StopSteps } \cup
    { "rm markers", "start watchdog", "waitForRemoteFile", "kill",
      "waitForProcessStopped", "kill -CONT" }

\* C16: when the PID file cannot be read, is empty after trimming or does
\* not hold an integer, the community backup/restore returns an error
\* and has deployed no watchdog and sent no stop or continue signal.
C16_PidValidated ==
    PidFileRejected =>
        /\ nErr \in { "failed to read neo4j pid file",
                      "neo4j pid file is empty", "invalid pid" }
        /\ pidStr = <<>>
        /\ \A i \in DOMAIN trace : trace[i].ev \notin WatchdogAndSignalSteps
        /\ ~watchdog /\ neo4jProc = "running"
        /\ pc = "done" => retErr = nErr

\* the PID file held "4x" and the backup ended with the invalid-pid error
C16_Witness ==
    /\ pc = "done"
    /\ \E i \in DOMAIN trace :
         trace[i].ev = "cat pid file" /\ trace[i].arg = <<"4", "x">>
    /\ retErr = "invalid pid"

\* the checksum pass of this run, when it has happened
ChecksumPass ==
    { i \in DOMAIN trace : trace[i].ev = "calculateBackupChecksums" }

\* C17: when a file under backup/database cannot be read while the
\* checksums are computed, CreateBackup returns an error and produces no
\* archive; the manifest of every archive made has a digest for every
\* file under backup/database.
C17_NoFileOmitted ==
    args.op = "CreateBackup" =>
        /\ \A i \in ChecksumPass :
             trace[i].arg.unreadable \cap DbPaths # {} =>
                /\ ~trace[i].ok
                /\ ~archive.present
                /\ pc = "done" => retErr # NoErr
        /\ archive.present =>
             \A p \in DOMAIN archive.entries \cap DbPaths :
                p \in DOMAIN archive.metadata.Checksums

\* C18: with excludeTaskManager unset, a prefect.dump missing from the
\* staging directory when the checksums are computed makes CreateBackup
\* return an error and produce no archive; with excludeTaskManager set
\* its absence is no error and the manifest has no prefect.dump key.
C18_MissingDumpIsAnError ==
    args.op = "CreateBackup" =>
        /\ \A i \in ChecksumPass :
             /\ ( /\ ~args.excludeTaskManager
                  /\ prefectDumpFilename \notin trace[i].arg.staged ) =>
                   /\ ~trace[i].ok
                   /\ ~archive.present
                   /\ pc = "done" => retErr # NoErr
             /\ args.excludeTaskManager =>
                   /\ prefectDumpFilename \notin trace[i].arg.staged
                   /\ retErr \notin { "could not access Prefect DB dump",
                                      "failed to calculate Prefect DB checksum" }
        /\ (args.excludeTaskManager /\ archive.present) =>
             prefectDumpFilename \notin DOMAIN archive.metadata.Checksums

\* what CreateBackup does after the running-task check
AfterTaskCheck ==
    { "stopAppContainers", "MkdirTemp", "cat pid file",
      "mkdir temp backup dir", "neo4j-admin backup", "neo4j-admin dump",
      "backupTaskManagerDB", "calculateBackupChecksums", "createTarball" }

\* C19: without force CreateBackup runs the running-task check before
\* anything else of the backup, and when the check reports interfering
\* tasks it returns that error with no database backup, no workflow dump
\* and no archive; with force the check is never run.
C19_TaskCheckUnlessForced ==
    args.op = "CreateBackup" =>
        /\ args.force => ~Issued("waitForRunningTasks")
        /\ ( /\ ~args.force
             /\ \E i \in DOMAIN trace : trace[i].ev \in AfterTaskCheck )
           => Succeeded("waitForRunningTasks")
        /\ Failed("waitForRunningTasks") =>
             /\ retErr = "running tasks"
             /\ \A i \in DOMAIN trace : trace[i].ev \notin AfterTaskCheck
             /\ ~archive.present

\* the check reported running tasks and the backup ended there
C19_Witness ==
    /\ args.op = "CreateBackup" /\ pc = "done"
    /\ ~args.force
    /\ Failed("waitForRunningTasks")
    /\ retErr = "running tasks"

UploadFailed == "backup created but failed to upload to S3"

\* a setting validateS3Config requires is empty
IncompleteS3Config(cfg) ==
    cfg.S3Bucket = "" \/ cfg.S3AccessKeyID = "" \/ cfg.S3SecretKey = ""

WillRestoreDump(a) ==
    /\ RecordsTaskManager(a.metadata)
    /\ ~args.excludeTaskManager
    /\ prefectDumpFilename \in DOMAIN a.entries

\* the digest recorded for the workflow dump is missing or is not the
\* digest of the dump in the archive
DumpDigestBad(a) ==
    \/ prefectDumpFilename \notin DOMAIN a.metadata.Checksums
    \/ a.metadata.Checksums[prefectDumpFilename]
         # calculateSHA256(a.entries[prefectDumpFilename])

\* C30: when RestoreBackup is going to restore the workflow dump, its
\* digest was compared with the one recorded under prefect.dump before
\* any destructive step: with the recorded digest missing or different
\* the restore is aborted with nothing wiped and no service stopped.
C30_DumpValidatedFirst ==
    ( /\ args.op = "RestoreBackup"
      /\ archive.present /\ archive.metaState = "ok"
      /\ WillRestoreDump(archive) )
    => /\ DumpDigestBad(archive) =>
            (NoLiveStep /\ (pc = "done" => retErr # NoErr))
       /\ ~NoLiveStep =>
            (Succeeded("validateBackupChecksums") /\ ~DumpDigestBad(archive))

\* the dump is there, its recorded digest is another one, and the
\* restore ended on that
C30_Witness ==
    /\ args.op = "RestoreBackup" /\ pc = "done"
    /\ WillRestoreDump(archive)
    /\ prefectDumpFilename \in DOMAIN archive.metadata.Checksums
    /\ retErr = "checksum mismatch for prefect.dump"
    /\ NoLiveStep

(***************************************************************************)
(* The checksum round trip on its own: the manifest CreateBackup computes  *)
(* over a staging directory, the archive made of both, and the validation  *)
(* RestoreBackup runs on what it extracts from that archive.               *)
(***************************************************************************)

\* what the staging directory can hold when the checksums are computed:
\* the workflow dump is there only if it was not excluded
StagedSets(excludeTM) ==
    { f \in PartialFns(Paths, RecordedContents) :
        excludeTM => prefectDumpFilename \notin DOMAIN f }

InitRoundTrip ==
    /\ args \in { a \in ArgsSet : a.op = "CreateBackup" /\ ~a.force
                                   /\ ~a.S3Upload }
    /\ pc = "rt_checksums"
    /\ defers = <<>>
    /\ retErr = NoErr
    /\ nErr = NoErr
    /\ editionInfo \in { NewNeo4jEditionInfo(e, FALSE) : e \in DetectedEditions }
    /\ neo4jEdition = <<>>
    /\ metadata = createBackupMetadata(~args.excludeTaskManager,
                                       editionInfo.Edition)
    /\ files \in StagedSets(args.excludeTaskManager)
    /\ workDir = TRUE
    /\ archive = NoArchive
    /\ running = AllServices
    /\ stoppedServices = {}
    /\ servicesToRestart = {}
    /\ startCalls = <<>>
    /\ pidStr = <<>>
    /\ neo4jProc = "running"
    /\ marker = "none"
    /\ watchdog = FALSE
    /\ elapsed = 0
    /\ remote = <<>>
    /\ runs = <<>>
    /\ K8sIdle
    /\ trace = <<>>

\* CreateBackup from the checksums to the archive
RT_Archive ==
    /\ pc = "rt_checksums"
    /\ \E fault \in ChecksumFaults(files, args.excludeTaskManager) :
        LET r == calculateBackupChecksums(files, args.excludeTaskManager,
                                          fault)
            meta == [metadata EXCEPT !.Checksums = r.sums]
        IN /\ trace' = Append(trace,
                  Ev("calculateBackupChecksums", r.err = NoErr,
                     [unreadable |-> fault.unreadable,
                      staged |-> DOMAIN files]))
           /\ IF r.err = NoErr
              THEN /\ metadata' = meta
                   /\ \E o \in createTarball(archive, files, meta) :
                        /\ archive' = o[1]
                        /\ o[2]
                   /\ pc' = "rt_extract"
                   /\ UNCHANGED retErr
              ELSE /\ retErr' = r.err
                   /\ pc' = "rt_failed"
                   /\ UNCHANGED <<metadata, archive>>
    /\ files' = <<>>
    /\ workDir' = FALSE
    /\ UNCHANGED <<args, k8s, defers, nErr, edition, app, db>>

\* RestoreBackup from the extraction to the checksum validation
RT_Validate ==
    /\ pc = "rt_extract"
    /\ \E a \in { b \in ArgsSet : b.op = "RestoreBackup"
                                   /\ ~b.restoreMigrateFormat } :
       \E unreadable \in SUBSET DOMAIN archive.entries :
        LET bad == validateBackupChecksums(archive.entries, archive.metadata,
                                           a.excludeTaskManager, unreadable)
        IN /\ args' = a
           /\ files' = archive.entries
           /\ workDir' = TRUE
           /\ metadata' = archive.metadata
           /\ IF bad = {}
              THEN /\ trace' = Append(trace,
                         Ev("validateBackupChecksums", TRUE, unreadable))
                   /\ UNCHANGED retErr
              ELSE \E e \in bad :
                   /\ trace' = Append(trace,
                         Ev("validateBackupChecksums", FALSE, unreadable))
                   /\ retErr' = e
    /\ pc' = "rt_validated"
    /\ UNCHANGED <<k8s, defers, nErr, edition, archive, app, db>>

NextRoundTrip == RT_Archive \/ RT_Validate

SpecRoundTrip == InitRoundTrip /\ [][NextRoundTrip]_vars

IntegrityErrors ==
    { "missing backup file", "checksum mismatch",
      "missing checksum for prefect.dump in metadata",
      "checksum mismatch for prefect.dump" }

After(a, b) ==
    \A j \in DOMAIN trace :
        trace[j].ev = b =>
            \E i \in 1..(j - 1) : trace[i].ev = a /\ trace[i].ok

\* the commands of the enterprise restore path
EnterpriseCommands ==
    { "stop database", "neo4j-admin restore", "neo4j-admin migrate",
      "restore metadata", "start database" }

\* C25: in the enterprise restore each command is issued at most once and
\* only after the one before it succeeded: the restore after the stop of
\* the logical database, the migration (issued only when requested) after
\* the restore, the metadata script after the restore and, when requested,
\* the migration, the start of the logical database after all of them;
\* nothing else happens between the stop and the start, and the database
\* process of the container is never signalled or stopped.
C25_EnterpriseRestoreOrder ==
    Issued("stop database") =>
      /\ \A i, j \in DOMAIN trace :
            (trace[i].ev \in EnterpriseCommands /\ trace[i].ev = trace[j].ev)
                => i = j
      /\ After("stop database", "neo4j-admin restore")
      /\ After("neo4j-admin restore", "neo4j-admin migrate")
      /\ Issued("neo4j-admin migrate") => args.restoreMigrateFormat
      /\ After("neo4j-admin restore", "restore metadata")
      /\ args.restoreMigrateFormat =>
            After("neo4j-admin migrate", "restore metadata")
      /\ After("restore metadata", "start database")
      /\ \A i, j \in DOMAIN trace :
            (i < j /\ trace[i].ev = "stop database"
                   /\ trace[j].ev = "start database") =>
                \A k \in i..j : trace[k].ev \in EnterpriseCommands
      /\ ~Issued("kill")
      /\ neo4jProc = "running"

\* C25 witness: an enterprise restore with the migration requested started
\* the logical database again
C25_Witness ==
    /\ args.restoreMigrateFormat
    /\ Succeeded("neo4j-admin migrate")
    /\ Succeeded("start database")
    /\ pc = "done"
    /\ retErr = NoErr

\* a CreateBackup against a community target, workflow database included,
\* has returned nil
CommunityBackupDone ==
    /\ args.op = "CreateBackup"
    /\ ~args.excludeTaskManager
    /\ editionInfo.IsCommunity /\ ~editionInfo.DetectionErr
    /\ pc = "done"
    /\ retErr = NoErr

\* C26: after a successful CreateBackup of a community target with the
\* workflow database included, the archive exists with a readable
\* backup_information.json, holds only entries below backup/, among them a
\* database dump below backup/database/ and backup/prefect.dump, and its
\* metadata marks the workflow database as included (component
\* "task-manager-db" or a prefect.dump checksum key) and records the
\* community edition.
C26_CommunityArchiveContents ==
    CommunityBackupDone =>
        /\ archive.present
        /\ archive.metaState = "ok"
        /\ DOMAIN archive.entries \subseteq Paths
        /\ DOMAIN archive.entries \cap DbPaths # {}
        /\ prefectDumpFilename \in DOMAIN archive.entries
        /\ \/ "task-manager-db" \in archive.metadata.Components
           \/ prefectDumpFilename \in DOMAIN archive.metadata.Checksums
        /\ EqualFold(archive.metadata.Neo4jEdition, neo4jEditionCommunity)

\* every call named b in the trace comes after a successful call with a
\* name in A
AfterAny(A, b) ==
    \A j \in DOMAIN trace :
        trace[j].ev = b =>
            \E i \in 1..(j - 1) : trace[i].ev \in A /\ trace[i].ok

\* the first call of the database backup and its last copy-out, per edition
DatabaseBackupFirst == { "cat pid file", "mkdir temp backup dir" }
DatabaseBackupLast == { "CopyFrom dump", "CopyFrom backup" }

\* the steps of CreateBackup from the running-task check on follow one
\* another, each after the success of the one before
BackupStepsInOrder ==
    /\ After("checkPrerequisites", "DetectEnvironment")
    /\ \A b \in DatabaseBackupFirst :
         /\ After("DetectEnvironment", b)
         /\ ~args.force => After("waitForRunningTasks", b)
    /\ AfterAny(DatabaseBackupLast, "backupTaskManagerDB")
    /\ Issued("backupTaskManagerDB") => ~args.excludeTaskManager
    /\ AfterAny(DatabaseBackupLast, "calculateBackupChecksums")
    /\ ~args.excludeTaskManager =>
         After("backupTaskManagerDB", "calculateBackupChecksums")
    /\ After("calculateBackupChecksums", "WriteFile metadata")
    /\ After("WriteFile metadata", "createTarball")
    /\ After("createTarball", "uploadBackupToS3")
    /\ Issued("uploadBackupToS3") => args.S3Upload

\* C27: CreateBackup runs prerequisite check, environment detection,
\* edition detection, quiescing on the community edition, running-task
\* check unless forced, database backup, workflow database backup unless
\* excluded, checksums, metadata, archive and upload if enabled in this
\* order, each step after the success of the one before; in particular on
\* the community edition the application containers are stopped before the
\* running-task check runs.
C27_BackupStepOrder ==
    args.op = "CreateBackup" =>
        /\ BackupStepsInOrder
        /\ After("DetectEnvironment", "stopAppContainers")
        /\ editionInfo.IsCommunity =>
             After("stopAppContainers", "waitForRunningTasks")

\* the events of a community backup that the order is about
NestedEvents ==
    << "stopAppContainers", "kill", "waitForProcessStopped",
       "neo4j-admin dump", "CopyFrom dump", "kill -CONT",
       "startAppContainers" >>

\* the positions of the calls named name in the trace
Positions(name) == { i \in DOMAIN trace : trace[i].ev = name }

\* C28: a successful community CreateBackup made each of these calls
\* exactly once, each successfully, in this order: application containers
\* stopped, stop signal to the database process, its stop confirmed, dump
\* run, dump copied out, continue signal, application containers
\* restarted. In every CreateBackup the dump and the copy-out are preceded
\* by a successful stop of the application containers without a restart
\* since, and by a confirmed stop of the database process without a
\* continue signal since; when the dump is about to run no application
\* container runs and the database process is stopped.
C28_CommunityNesting ==
    args.op = "CreateBackup" =>
      /\ (editionInfo.IsCommunity /\ pc = "done" /\ retErr = NoErr) =>
            /\ \A k \in DOMAIN NestedEvents :
                  /\ Cardinality(Positions(NestedEvents[k])) = 1
                  /\ \A i \in Positions(NestedEvents[k]) : trace[i].ok
            /\ \A k \in 1..(Len(NestedEvents) - 1) :
                  \A i \in Positions(NestedEvents[k]),
                     j \in Positions(NestedEvents[k + 1]) : i < j
      /\ \A j \in Positions("neo4j-admin dump") \cup Positions("CopyFrom dump") :
            /\ \E i \in 1..(j - 1) :
                  trace[i].ev = "stopAppContainers" /\ trace[i].ok
            /\ \A i \in 1..(j - 1) : trace[i].ev # "startAppContainers"
            /\ \E i \in 1..(j - 1) :
                  trace[i].ev = "waitForProcessStopped" /\ trace[i].ok
            /\ \A i \in 1..(j - 1) : trace[i].ev # "kill -CONT"
      /\ pc = "bc_dump" => (running = {} /\ neo4jProc = "stopped")

\* C28 witness: a community CreateBackup returned nil after the dump was
\* copied out and the application containers were started again
C28_Witness ==
    /\ args.op = "CreateBackup"
    /\ editionInfo.IsCommunity
    /\ pc = "done"
    /\ retErr = NoErr
    /\ Succeeded("CopyFrom dump")
    /\ Succeeded("startAppContainers")
    /\ running = AllServices

\* the presence gate of RestoreBackup: a workflow dump that the metadata
\* includes and the caller did not exclude is among the files of the archive
PresenceGatePassed ==
    ~( /\ taskManagerIncluded(archive.metadata)
       /\ ~args.excludeTaskManager
       /\ prefectDumpFilename \notin DOMAIN archive.entries )
PresenceError ==
    "backup metadata includes task manager database but prefect.dump is missing"

\* the last call of a successful database restore, per edition
DatabaseRestoreLast == { "kill -CONT", "start database" }

\* the call whose success each call of RestoreBackup follows
RestorePredecessors(name) ==
    CASE name = "Stat metadata" -> { "extractTarball" }
      [] name \in { "detectNeo4jEdition", "validateBackupChecksums" } ->
            { "Unmarshal metadata" }
      [] name = "wipeTransientData" -> { "validateBackupChecksums" }
      [] name = "stopAppContainers" -> { "wipeTransientData" }
      [] name \in { "restorePostgreSQL", "restartDependencies" } ->
            { "stopAppContainers" }
      [] name = "CopyTo backup" -> { "restartDependencies" }
      [] name = "StartServices" -> DatabaseRestoreLast
      [] OTHER -> {}

\* the steps of RestoreBackup that make calls follow one another, each
\* after the success of the one before; the wipe and everything after it
\* come after all validation gates
RestoreStepsInOrder ==
    /\ \A j \in DOMAIN trace :
          LET before == RestorePredecessors(trace[j].ev)
          IN before # {} =>
                \E i \in 1..(j - 1) : trace[i].ok /\ trace[i].ev \in before
    /\ ( /\ Issued("restartDependencies")
          /\ taskManagerIncluded(archive.metadata)
          /\ ~args.excludeTaskManager ) => Succeeded("restorePostgreSQL")
    /\ Issued("wipeTransientData") =>
          /\ archive.metaState = "ok"
          /\ Issued("detectNeo4jEdition")
          /\ PresenceGatePassed
          /\ retErr \notin IntegrityErrors \cup { PresenceError }

\* C29: RestoreBackup runs archive extraction, metadata validation, edition
\* reconciliation, the inference of whether the backup holds the workflow
\* database (which makes no call), checksum validation, wipe of transient
\* data, stop of the application, workflow database restore when
\* applicable, restart of the dependencies, database restore and restart of
\* the application in this order, each step after the success of the one
\* before; the wipe and the stop of the application come only after every
\* validation gate (metadata, edition, checksums, presence of the workflow
\* dump) has passed.
C29_RestoreStepOrder ==
    args.op = "RestoreBackup" => RestoreStepsInOrder

\* C29 witness: a restore that went through every step, the workflow
\* database restore included, and returned nil
C29_Witness ==
    /\ args.op = "RestoreBackup"
    /\ pc = "done"
    /\ retErr = NoErr
    /\ Succeeded("restorePostgreSQL")
    /\ Succeeded("StartServices")

\* the errors RestoreBackup returns on account of the workflow dump
WorkflowDumpErrors ==
    { PresenceError,
      "missing checksum for prefect.dump in metadata",
      "failed to calculate checksum for prefect.dump",
      "checksum mismatch for prefect.dump" }

\* the run is past the step that restores the workflow store
PastWorkflowRestore ==
    /\ pc # "rb_restore_postgres"
    /\ Succeeded("stopAppContainers")

\* C31: with excludeTaskManager set, RestoreBackup never invokes
\* restorePostgreSQL and never fails on account of prefect.dump (absent or
\* with another digest), whatever the metadata records; restorePostgreSQL
\* is invoked exactly when inclusion is inferred, exclusion is not
\* requested and the dump is in the archive.
C31_ExcludeTaskManager ==
    ( args.op = "RestoreBackup" /\ archive.present
      /\ archive.metaState = "ok" )
    => LET invoked == Issued("restorePostgreSQL")
       IN /\ args.excludeTaskManager =>
               /\ ~invoked
               /\ retErr \notin WorkflowDumpErrors
          /\ invoked => WillRestoreDump(archive)
          /\ PastWorkflowRestore => (invoked <=> WillRestoreDump(archive))

\* C31 witness: exclusion requested, the metadata includes the workflow
\* database, the archive has no dump, and the restore went through to the
\* end without restoring the workflow store
C31_Witness ==
    /\ args.op = "RestoreBackup" /\ args.excludeTaskManager
    /\ taskManagerIncluded(archive.metadata)
    /\ prefectDumpFilename \notin DOMAIN archive.entries
    /\ pc = "done" /\ retErr = NoErr
    /\ Succeeded("StartServices")
    /\ ~Issued("restorePostgreSQL")

\* what the database backup and the staging after it are made of
DatabaseBackupEvents ==
    { "cat pid file", "mkdir temp backup dir", "neo4j-admin backup",
      "neo4j-admin dump", "MkdirTemp", "createTarball" }
      \cup WatchdogAndSignalSteps

StopFailed == "failed to stop services for Neo4j Community backup"

\* C32: in a community CreateBackup whose stopAppContainers fails after
\* some services were stopped, startAppContainers is called once, with
\* exactly the services that were stopped, the result is the stop error
\* whether or not that restart succeeds, and the database backup never
\* runs: no watchdog, no signal, the database process keeps running.
C32_StopFailureRestartsStopped ==
    ( /\ args.op = "CreateBackup"
      /\ Failed("stopAppContainers")
      /\ stoppedServices # {} )
    => /\ editionInfo.IsCommunity
       /\ startCalls = << stoppedServices >>
       /\ Cardinality(Positions("startAppContainers")) = 1
       /\ \A i \in Positions("startAppContainers") :
            \E j \in 1..(i - 1) :
                trace[j].ev = "stopAppContainers" /\ ~trace[j].ok
       /\ retErr = StopFailed
       /\ \A i \in DOMAIN trace : trace[i].ev \notin DatabaseBackupEvents
       /\ neo4jProc = "running" /\ ~watchdog
       /\ ~archive.present

\* C32 witness: one service was stopped, the stop failed, the restart of
\* that service failed too, and the run ended with the stop error
C32_Witness ==
    /\ args.op = "CreateBackup" /\ pc = "done"
    /\ Failed("stopAppContainers")
    /\ stoppedServices = { "infrahub-server" }
    /\ Failed("startAppContainers")
    /\ retErr = StopFailed

\* C35: a readiness poll of stopNeo4jCommunity that succeeds has observed
\* a marker written by the helper launched in this run, never one left
\* over from a previous run, so the stop signal is sent only with a live
\* helper of this run.
C35_MarkerOfThisRun ==
    \A i \in DOMAIN trace :
        /\ (trace[i].ev = "waitForRemoteFile" /\ trace[i].ok)
              => trace[i].arg = "fresh"
        /\ trace[i].ev = "kill" =>
              \E j \in 1..(i - 1) :
                  /\ trace[j].ev = "waitForRemoteFile"
                  /\ trace[j].ok /\ trace[j].arg = "fresh"

\* the enterprise restore commands that run with the logical database
\* stopped
StoppedDatabaseCommands ==
    { "neo4j-admin restore", "neo4j-admin migrate", "restore metadata" }

\* C36: in the enterprise restore, when the restore, the format migration
\* or the metadata script fails after the logical database was stopped,
\* no command to start the logical database is issued in that run:
\* restoreNeo4jEnterprise returns the error of the failed command, nothing
\* runs after it, and the logical database is left stopped.
C36_EnterpriseFailureLeavesStopped ==
    Issued("stop database") =>
        \A i \in DOMAIN trace :
            ( /\ trace[i].ev \in StoppedDatabaseCommands
              /\ ~trace[i].ok )
            => /\ \E j \in 1..(i - 1) :
                     trace[j].ev = "stop database" /\ trace[j].ok
               /\ ~Issued("start database")
               /\ ~Issued("StartServices")
               /\ \A j \in (i + 1)..Len(trace) :
                     trace[j].ev \notin EnterpriseCommands
               /\ nErr = EnterpriseErr(trace[i].ev)
               /\ pc = "done" => retErr = nErr

\* C36 witness: the format migration failed and RestoreBackup ended with
\* its error, the logical database never started again
C36_Witness ==
    /\ pc = "done"
    /\ Succeeded("stop database")
    /\ Failed("neo4j-admin migrate")
    /\ retErr = "failed to migrate neo4j to block format"
    /\ ~Issued("start database")

\* the application services were stopped for a community backup that is
\* to be uploaded
StoppedForUpload ==
    /\ args.op = "CreateBackup" /\ args.S3Upload
    /\ Succeeded("stopAppContainers")

\* C37: in a community CreateBackup with S3 upload enabled the stopped
\* services are restarted only once the upload attempt is over, whatever
\* its result: the restart is the last action of the run, after the
\* archive creation, the upload and the removal of the staging directory,
\* and until then the services stay stopped.
C37_RestartAfterUpload ==
    StoppedForUpload =>
        /\ \A i \in Positions("startAppContainers") :
              /\ i = Len(trace)
              /\ pc \in { "cb_return", "done" } /\ defers = <<>>
              /\ ~workDir
              /\ Succeeded("MkdirTemp") =>
                    \E j \in 1..(i - 1) : trace[j].ev = "RemoveAll workDir"
              /\ Succeeded("createTarball") =>
                    \E j \in 1..(i - 1) : trace[j].ev = "uploadBackupToS3"
        /\ ~Issued("startAppContainers") =>
              /\ running = {}
              /\ pc # "done"
        /\ Issued("uploadBackupToS3") =>
              After("createTarball", "uploadBackupToS3")

\* C37 witness: the archive was created, the upload failed, the staging
\* directory was removed and only then the services were started again
C37_Witness ==
    /\ StoppedForUpload
    /\ pc = "done"
    /\ Succeeded("createTarball")
    /\ Failed("uploadBackupToS3")
    /\ trace[Len(trace)].ev = "startAppContainers"
    /\ trace[Len(trace)].ok
    /\ running = AllServices

(***************************************************************************)
(* The Kubernetes backend: Detect, the pod lookup and its cache.           *)
(***************************************************************************)

\* Bounds: namespaces one listing returns, pods one query lists.
MaxNamespaces == 3
MaxPods == 2

\* an error of the backend: its message, then the names it mentions;
\* nil is the empty sequence
K8sNil == <<>>
K8sErr(msg, names) == <<msg>> \o names

RangeOf(s) == { s[i] : i \in DOMAIN s }
\* the sequences of at most n distinct elements of S
Listings(S, n) ==
    UNION { { s \in [1..k -> S] : Cardinality(RangeOf(s)) = k } : k \in 0..n }

\* strings.Join(names, ", ") of an error message: the names, in order
Join(names) == names

\* strings.Contains
Contains(s, sub) ==
    \E i \in 0..(Len(s) - Len(sub)) : SubSeq(s, i + 1, i + Len(sub)) = sub

\* the namespaces a cluster may hold, and the listings of candidates
NamespaceNames == { "ns1", "ns2", "ns3" }
ConfiguredNamespaces == { "" } \cup NamespaceNames
NamespaceListings == Listings(NamespaceNames, MaxNamespaces)

\* the services the backend is asked for, and the pods a cluster may run
K8sServices == { <<"d","b">> }
PodNames == { <<"d","b","0">>, <<"w","0">> }

\* the selector candidates of a service, in priority order
NumSelectors == 2
podSelectors(service) == [i \in 1..NumSelectors |-> <<service, i>>]
Selectors == UNION { RangeOf(podSelectors(s)) : s \in K8sServices }

\* the answer to one kubectl get pods: failure, or the pods listed
QueryResults ==
    { [ok |-> FALSE, pods |-> <<>>] }
    \cup { [ok |-> TRUE, pods |-> l] : l \in Listings(PodNames, MaxPods) }
Clusters == [sel : [Selectors -> QueryResults], all : QueryResults]

\* the text kubectl prints: one pod name per line, and the final newline
Output(pods) == Append(pods, <<>>)

\* nonEmptyLines
nonEmptyLines(output) == SelectSeq(output, LAMBDA l : l # <<>>)

\* KubernetesBackend.Detect, given the outcome of its three kubectl calls
Detect_VerifyIgnored(configured, kubectlOk, list, verifyOk) ==
    LET q1 == <<Ev("kubectl version", kubectlOk, <<>>)>>
        q2 == q1 \o <<Ev("ListKubernetesNamespaces", list.ok, list.names)>>
        same == [namespace |-> "", config |-> configured]
    IN IF ~kubectlOk
       THEN same @@ [err |-> K8sErr("kubectl CLI not available", <<>>),
                     queries |-> q1]
       ELSE IF ~list.ok
       THEN same @@ [err |-> K8sErr("failed to list namespaces", <<>>),
                     queries |-> q2]
       ELSE IF configured # ""
       THEN [namespace |-> configured, config |-> configured,
             err |-> K8sNil,
             queries |-> q2 \o <<Ev("kubectl get pods", verifyOk,
                                    configured)>>]
       ELSE IF Len(list.names) = 0
       THEN same @@ [err |-> K8sErr("ErrEnvironmentNotFound", <<>>),
                     queries |-> q2]
       ELSE IF Len(list.names) = 1
       THEN [namespace |-> list.names[1], config |-> list.names[1],
             err |-> K8sNil, queries |-> q2]
       ELSE same @@ [err |-> K8sErr("multiple kubernetes namespaces found",
                                    Join(list.names)),
                     queries |-> q2]
Detect_CountFirst(configured, kubectlOk, list, verifyOk) ==
    LET q1 == <<Ev("kubectl version", kubectlOk, <<>>)>>
        q2 == q1 \o <<Ev("ListKubernetesNamespaces", list.ok, list.names)>>
        same == [namespace |-> "", config |-> configured]
    IN IF ~kubectlOk
       THEN same @@ [err |-> K8sErr("kubectl CLI not available", <<>>),
                     queries |-> q1]
       ELSE IF ~list.ok
       THEN same @@ [err |-> K8sErr("failed to list namespaces", <<>>),
                     queries |-> q2]
       ELSE IF Len(list.names) = 0
       THEN same @@ [err |-> K8sErr("ErrEnvironmentNotFound", <<>>),
                     queries |-> q2]
       ELSE IF Len(list.names) > 1
       THEN same @@ [err |-> K8sErr("multiple kubernetes namespaces found",
                                    Join(list.names)),
                     queries |-> q2]
       ELSE IF configured # ""
       THEN [namespace |-> configured, config |-> configured,
             err |-> IF verifyOk THEN K8sNil
                     ELSE K8sErr("failed to verify namespace", <<configured>>),
             queries |-> q2 \o <<Ev("kubectl get pods", verifyOk,
                                    configured)>>]
       ELSE [namespace |-> list.names[1], config |-> list.names[1],
             err |-> K8sNil, queries |-> q2]
Detect(configured, kubectlOk, list, verifyOk) ==
    LET q1 == <<Ev("kubectl version", kubectlOk, <<>>)>>
        q2 == q1 \o <<Ev("ListKubernetesNamespaces", list.ok, list.names)>>
        same == [namespace |-> "", config |-> configured]
    IN IF ~kubectlOk
       THEN same @@ [err |-> K8sErr("kubectl CLI not available", <<>>),
                     queries |-> q1]
       ELSE IF ~list.ok
       THEN same @@ [err |-> K8sErr("failed to list namespaces", <<>>),
                     queries |-> q2]
       ELSE IF configured # ""
       THEN [namespace |-> configured, config |-> configured,
             err |-> IF verifyOk THEN K8sNil
                     ELSE K8sErr("failed to verify namespace", <<configured>>),
             queries |-> q2 \o <<Ev("kubectl get pods", verifyOk,
                                    configured)>>]
       ELSE IF Len(list.names) = 0
       THEN same @@ [err |-> K8sErr("ErrEnvironmentNotFound", <<>>),
                     queries |-> q2]
       ELSE IF Len(list.names) = 1
       THEN [namespace |-> list.names[1], config |-> list.names[1],
             err |-> K8sNil, queries |-> q2]
       ELSE same @@ [err |-> K8sErr("multiple kubernetes namespaces found",
                                    Join(list.names)),
                     queries |-> q2]

\* the outcomes ListKubernetesNamespaces may have
NamespaceLists ==
    { [ok |-> FALSE, names |-> <<>>] }
    \cup { [ok |-> TRUE, names |-> l] : l \in NamespaceListings }

InitDetect ==
    /\ args = [op |-> "CreateBackup", force |-> FALSE,
               excludeTaskManager |-> FALSE,
               restoreMigrateFormat |-> FALSE, S3Upload |-> FALSE]
    /\ pc = "k8s_new"
    /\ defers = <<>>
    /\ retErr = NoErr
    /\ nErr = NoErr
    /\ editionInfo = NoEdition
    /\ neo4jEdition = <<>>
    /\ metadata = NoMetadata
    /\ files = <<>>
    /\ workDir = FALSE
    /\ archive = NoArchive
    /\ running = AllServices
    /\ stoppedServices = {}
    /\ servicesToRestart = {}
    /\ startCalls = <<>>
    /\ pidStr = <<>>
    /\ neo4jProc = "running"
    /\ marker = "none"
    /\ watchdog = FALSE
    /\ elapsed = 0
    /\ remote = <<>>
    /\ runs = <<>>
    /\ K8sNamespace \in ConfiguredNamespaces
    /\ namespace = ""
    /\ podCache = <<>>
    /\ cluster = NoCluster
    /\ k8sRet = NoCall
    /\ trace = <<>>

\* backend.Detect() of a fresh KubernetesBackend
K8s_Detect ==
    /\ pc = "k8s_new"
    /\ \E kubectlOk \in BOOLEAN, list \in NamespaceLists, verifyOk \in BOOLEAN :
        LET r == Detect(K8sNamespace, kubectlOk, list, verifyOk)
        IN /\ namespace' = r.namespace
           /\ K8sNamespace' = r.config
           /\ k8sRet' = [op |-> "Detect", service |-> <<>>, pod |-> <<>>,
                         err |-> r.err, queries |-> r.queries]
           /\ pc' = IF r.err = K8sNil THEN "k8s_ready" ELSE "k8s_failed"
    /\ UNCHANGED <<args, defers, errs, edition, fs, app, db, podCache,
                   cluster, trace>>

NextDetect == K8s_Detect

SpecDetect == InitDetect /\ [][NextDetect]_vars

\* the events of the last call on the backend
K8sQueried(q, name, ok) ==
    \E i \in DOMAIN q : q[i].ev = name /\ q[i].ok = ok
\* what the namespace listing of a Detect call returned
Candidates(q) ==
    LET i == CHOOSE j \in DOMAIN q : q[j].ev = "ListKubernetesNamespaces"
    IN q[i].arg

\* C22: a Detect call that gets as far as a successful namespace listing
\* behaves as follows. Without a configured namespace it succeeds only when
\* the listing holds exactly one candidate, which becomes both the backend's
\* namespace and the configured one; with no candidate it returns the
\* not-found error, with several an error naming all of them, and in both
\* cases adopts nothing. With a configured namespace it adopts that
\* namespace, and Detect succeeds exactly when the verification query for
\* that namespace succeeded.
C22_DetectNamespace ==
    [][ (pc = "k8s_new" /\ pc' # "k8s_new") =>
        LET q == k8sRet'.queries
            err == k8sRet'.err
            listed == K8sQueried(q, "ListKubernetesNamespaces", TRUE)
            n == IF listed THEN Len(Candidates(q)) ELSE 0
            verified ==
                \E i \in DOMAIN q : /\ q[i].ev = "kubectl get pods"
                                    /\ q[i].ok
                                    /\ q[i].arg = K8sNamespace
        IN IF K8sNamespace = ""
           THEN /\ (err = K8sNil) => (listed /\ n = 1)
                /\ (listed /\ n = 1) =>
                     /\ err = K8sNil
                     /\ namespace' = Candidates(q)[1]
                     /\ K8sNamespace' = Candidates(q)[1]
                /\ (listed /\ n = 0) =>
                     /\ err = K8sErr("ErrEnvironmentNotFound", <<>>)
                     /\ namespace' = ""
                     /\ K8sNamespace' = ""
                /\ (listed /\ n > 1) =>
                     /\ Head(err) = "multiple kubernetes namespaces found"
                     /\ RangeOf(Tail(err)) = RangeOf(Candidates(q))
                     /\ namespace' = ""
                     /\ K8sNamespace' = ""
           ELSE /\ (err = K8sNil) <=> verified
                /\ listed => namespace' = K8sNamespace
                /\ K8sNamespace' = K8sNamespace
      ]_vars

\* C22 witness: Detect without a configured namespace found two candidates
\* and returned the error that names both
C22_Witness ==
    /\ pc = "k8s_failed"
    /\ K8sNamespace = ""
    /\ Len(k8sRet.err) = 3
    /\ Head(k8sRet.err) = "multiple kubernetes namespaces found"

\* C38: with a namespace configured, the outcome of Detect does not depend
\* on the candidates the listing found: it is the outcome with no
\* candidate at all, it is never the not-found error nor the ambiguity
\* error, and Detect fails only when the CLI check, the namespace listing
\* or the verification query of the configured namespace fails.
C38_ConfiguredNamespace ==
    [][ (pc = "k8s_new" /\ pc' # "k8s_new" /\ K8sNamespace # "") =>
        LET q == k8sRet'.queries
            err == k8sRet'.err
            cli == K8sQueried(q, "kubectl version", TRUE)
            listed == K8sQueried(q, "ListKubernetesNamespaces", TRUE)
            verified == K8sQueried(q, "kubectl get pods", TRUE)
            bare == Detect(K8sNamespace, cli, [ok |-> listed, names |-> <<>>],
                           verified)
        IN /\ err = bare.err
           /\ namespace' = bare.namespace
           /\ K8sNamespace' = K8sNamespace
           /\ err # K8sErr("ErrEnvironmentNotFound", <<>>)
           /\ err # K8sNil => Head(err) # "multiple kubernetes namespaces found"
           /\ (err # K8sNil) <=>
                \/ K8sQueried(q, "kubectl version", FALSE)
                \/ K8sQueried(q, "ListKubernetesNamespaces", FALSE)
                \/ K8sQueried(q, "kubectl get pods", FALSE)
           /\ err # K8sNil => ~q[Len(q)].ok
      ]_vars

\* C38 witness: a namespace is configured, the listing found more than one
\* candidate, and Detect returned nil with the configured namespace
C38_Witness ==
    /\ pc = "k8s_ready"
    /\ K8sNamespace # ""
    /\ namespace = K8sNamespace
    /\ Len(Candidates(k8sRet.queries)) > 1
    /\ k8sRet.err = K8sNil

\* getPodForService's loop over the selector candidates from position i:
\* a query that fails or lists nothing is passed over, the first one that
\* lists a pod decides
RECURSIVE trySelectors(_, _, _)
trySelectors(cl, sels, i) ==
    IF i > Len(sels)
    THEN [found |-> FALSE, pod |-> <<>>, queries |-> <<>>]
    ELSE LET r == cl.sel[sels[i]]
             pods == IF r.ok THEN nonEmptyLines(Output(r.pods)) ELSE <<>>
             q == Ev("kubectl get pods -l", r.ok, sels[i])
         IN IF Len(pods) > 0
            THEN [found |-> TRUE, pod |-> pods[1], queries |-> <<q>>]
            ELSE LET rest == trySelectors(cl, sels, i + 1)
                 IN [rest EXCEPT !.queries = <<q>> \o @]

\* getPodForService's fallback loop: the first listed name that contains
\* the service name, or the empty name
RECURSIVE firstContaining(_, _)
firstContaining(names, service) ==
    IF names = <<>> THEN <<>>
    ELSE IF Contains(Head(names), service) THEN Head(names)
    ELSE firstContaining(Tail(names), service)

\* k.podCache[service] = pod
CachePut(cache, service, pod) ==
    [s \in DOMAIN cache \cup {service} |->
        IF s = service THEN pod ELSE cache[s]]

\* KubernetesBackend.getPodForService: the pod, the error, the cache
\* afterwards and the queries sent to the cluster
getPodForService_NoCache(cache, cl, ns, service) ==
    LET t == trySelectors(cl, podSelectors(service), 1)
        qAll == Ev("kubectl get pods", cl.all.ok, ns)
        name == firstContaining(nonEmptyLines(Output(cl.all.pods)), service)
    IN IF t.found
       THEN [pod |-> t.pod, err |-> K8sNil,
             cache |-> CachePut(cache, service, t.pod),
             queries |-> t.queries]
       ELSE IF ~cl.all.ok
       THEN [pod |-> <<>>, err |-> K8sErr("failed to list pods", <<>>),
             cache |-> cache, queries |-> Append(t.queries, qAll)]
       ELSE IF name # <<>>
       THEN [pod |-> name, err |-> K8sNil,
             cache |-> CachePut(cache, service, name),
             queries |-> Append(t.queries, qAll)]
       ELSE [pod |-> <<>>,
             err |-> K8sErr("no pods found for service in namespace", <<ns>>),
             cache |-> cache, queries |-> Append(t.queries, qAll)]
getPodForService_LastWins(cache, cl, ns, service) ==
    LET sels == podSelectors(service)
        t == trySelectors(cl, [i \in DOMAIN sels |-> sels[Len(sels) + 1 - i]], 1)
        qAll == Ev("kubectl get pods", cl.all.ok, ns)
        name == firstContaining(nonEmptyLines(Output(cl.all.pods)), service)
    IN IF service \in DOMAIN cache /\ cache[service] # <<>>
       THEN [pod |-> cache[service], err |-> K8sNil, cache |-> cache,
             queries |-> <<>>]
       ELSE IF t.found
       THEN [pod |-> t.pod, err |-> K8sNil,
             cache |-> CachePut(cache, service, t.pod),
             queries |-> t.queries]
       ELSE IF ~cl.all.ok
       THEN [pod |-> <<>>, err |-> K8sErr("failed to list pods", <<>>),
             cache |-> cache, queries |-> Append(t.queries, qAll)]
       ELSE IF name # <<>>
       THEN [pod |-> name, err |-> K8sNil,
             cache |-> CachePut(cache, service, name),
             queries |-> Append(t.queries, qAll)]
       ELSE [pod |-> <<>>,
             err |-> K8sErr("no pods found for service in namespace", <<ns>>),
             cache |-> cache, queries |-> Append(t.queries, qAll)]
getPodForService(cache, cl, ns, service) ==
    LET t == trySelectors(cl, podSelectors(service), 1)
        qAll == Ev("kubectl get pods", cl.all.ok, ns)
        name == firstContaining(nonEmptyLines(Output(cl.all.pods)), service)
    IN IF service \in DOMAIN cache /\ cache[service] # <<>>
       THEN [pod |-> cache[service], err |-> K8sNil, cache |-> cache,
             queries |-> <<>>]
       ELSE IF t.found
       THEN [pod |-> t.pod, err |-> K8sNil,
             cache |-> CachePut(cache, service, t.pod),
             queries |-> t.queries]
       ELSE IF ~cl.all.ok
       THEN [pod |-> <<>>, err |-> K8sErr("failed to list pods", <<>>),
             cache |-> cache, queries |-> Append(t.queries, qAll)]
       ELSE IF name # <<>>
       THEN [pod |-> name, err |-> K8sNil,
             cache |-> CachePut(cache, service, name),
             queries |-> Append(t.queries, qAll)]
       ELSE [pod |-> <<>>,
             err |-> K8sErr("no pods found for service in namespace", <<ns>>),
             cache |-> cache, queries |-> Append(t.queries, qAll)]

\* the common shape of Exec, ExecStream, CopyTo and CopyFrom: look the pod
\* up, give up on a lookup error, else run kubectl against the pod
PodCall(op, cmd, service) ==
    /\ pc = "k8s_ready"
    /\ LET r == getPodForService(podCache, cluster, namespace, service)
       IN /\ podCache' = r.cache
          /\ IF r.err # K8sNil
             THEN k8sRet' = [op |-> op, service |-> service, pod |-> <<>>,
                             err |-> r.err, queries |-> r.queries]
             ELSE \E ok \in BOOLEAN :
                  k8sRet' = [op |-> op, service |-> service, pod |-> r.pod,
                             err |-> IF ok THEN K8sNil
                                     ELSE K8sErr(cmd, <<"failed">>),
                             queries |-> Append(r.queries,
                                                Ev(cmd, ok, r.pod))]
    /\ UNCHANGED <<args, ctl, errs, edition, fs, app, db, K8sNamespace,
                   namespace, cluster, trace>>

Exec == \E s \in K8sServices : PodCall("Exec", "kubectl exec", s)
ExecStream == \E s \in K8sServices : PodCall("ExecStream", "kubectl exec -i", s)
CopyTo == \E s \in K8sServices : PodCall("CopyTo", "kubectl cp to", s)
CopyFrom == \E s \in K8sServices : PodCall("CopyFrom", "kubectl cp from", s)

\* the cluster moves on between two calls: one query now answers differently
ClusterChange ==
    /\ pc = "k8s_ready"
    /\ \E r \in QueryResults :
        \/ /\ r # cluster.all
           /\ cluster' = [cluster EXCEPT !.all = r]
        \/ \E sel \in Selectors :
           /\ r # cluster.sel[sel]
           /\ cluster' = [cluster EXCEPT !.sel[sel] = r]
    /\ UNCHANGED <<args, ctl, errs, edition, fs, app, db, K8sNamespace,
                   namespace, podCache, k8sRet, trace>>

\* the backend once Detect has found and adopted the only namespace, in
\* front of a cluster in any state
InitK8s ==
    LET r == Detect("", TRUE, [ok |-> TRUE, names |-> <<"ns1">>], TRUE)
    IN /\ args = [op |-> "CreateBackup", force |-> FALSE,
                  excludeTaskManager |-> FALSE,
                  restoreMigrateFormat |-> FALSE, S3Upload |-> FALSE]
       /\ pc = "k8s_ready"
       /\ defers = <<>>
       /\ retErr = NoErr
       /\ nErr = NoErr
       /\ editionInfo = NoEdition
       /\ neo4jEdition = <<>>
       /\ metadata = NoMetadata
       /\ files = <<>>
       /\ workDir = FALSE
       /\ archive = NoArchive
       /\ running = AllServices
       /\ stoppedServices = {}
       /\ servicesToRestart = {}
       /\ startCalls = <<>>
       /\ pidStr = <<>>
       /\ neo4jProc = "running"
       /\ marker = "none"
       /\ watchdog = FALSE
       /\ elapsed = 0
       /\ remote = <<>>
       /\ runs = <<>>
       /\ K8sNamespace = r.config
       /\ namespace = r.namespace
       /\ podCache = <<>>
       /\ cluster \in Clusters
       /\ k8sRet = [op |-> "Detect", service |-> <<>>, pod |-> <<>>,
                    err |-> r.err, queries |-> r.queries]
       /\ trace = <<>>

NextK8s ==
    \/ Exec
    \/ ExecStream
    \/ CopyTo
    \/ CopyFrom
    \/ ClusterChange

SpecK8s == InitK8s /\ [][NextK8s]_vars

\* a step of SpecK8s in which the backend was called (the cluster itself
\* stayed as it was)
PodCallStep == pc = "k8s_ready" /\ cluster' = cluster

\* what selector candidate i of a service lists in cluster cl
Yields(cl, service, i) ==
    LET r == cl.sel[podSelectors(service)[i]]
    IN IF r.ok THEN r.pods ELSE <<>>
\* what the listing of all pods of the namespace holds in cluster cl
AllPods(cl) == IF cl.all.ok THEN cl.all.pods ELSE <<>>

Min(S) == CHOOSE x \in S : \A y \in S : x <= y

\* C23: a lookup for a service that is not cached returns the first pod of
\* the first selector candidate, in priority order, that lists any pod;
\* when no candidate lists one, the first pod of the namespace whose name
\* contains the service name; and an error without a pod when there is
\* none. A lookup for a cached service returns the cached pod. The pod is
\* so a function of the cluster state and the cache alone.
C23_Resolution ==
    [][ PodCallStep =>
        LET s == k8sRet'.service
            hit == { i \in 1..NumSelectors : Yields(cluster, s, i) # <<>> }
            names == AllPods(cluster)
            match == { j \in DOMAIN names : Contains(names[j], s) }
        IN IF s \in DOMAIN podCache
           THEN k8sRet'.pod = podCache[s]
           ELSE IF hit # {}
           THEN k8sRet'.pod = Yields(cluster, s, Min(hit))[1]
           ELSE IF match # {}
           THEN k8sRet'.pod = names[Min(match)]
           ELSE k8sRet'.pod = <<>> /\ k8sRet'.err # K8sNil
      ]_vars

\* C23 witness: the first candidate listed nothing, the second exactly one
\* pod, and the call ran against that pod
C23_Witness ==
    /\ k8sRet.op = "Exec"
    /\ Len(k8sRet.queries) = 3
    /\ k8sRet.queries[1] = Ev("kubectl get pods -l", TRUE,
                              podSelectors(k8sRet.service)[1])
    /\ k8sRet.queries[2] = Ev("kubectl get pods -l", TRUE,
                              podSelectors(k8sRet.service)[2])
    /\ Yields(cluster, k8sRet.service, 1) = <<>>
    /\ Yields(cluster, k8sRet.service, 2) = << <<"d","b","0">> >>
    /\ k8sRet.pod = <<"d","b","0">>

\* C24: in every step an entry of the pod cache stays what it was, and no
\* entry is the empty name; a call for a service that is cached runs against
\* the cached pod and sends the cluster no pod query, whatever the cluster
\* holds by now; a call whose lookup failed leaves the cache as it was.
C24_CacheWriteOnce ==
    [][ /\ \A s \in DOMAIN podCache :
            s \in DOMAIN podCache' /\ podCache'[s] = podCache[s]
        /\ \A s \in DOMAIN podCache' : podCache'[s] # <<>>
        /\ (PodCallStep /\ k8sRet'.service \in DOMAIN podCache) =>
            /\ k8sRet'.pod = podCache[k8sRet'.service]
            /\ Len(k8sRet'.queries) = 1
            /\ k8sRet'.queries[1].arg = podCache[k8sRet'.service]
            /\ k8sRet'.queries[1].ev \notin
                   { "kubectl get pods -l", "kubectl get pods" }
        /\ (PodCallStep /\ k8sRet'.pod = <<>>) => podCache' = podCache
      ]_vars

\* C24 witness: a call ran against the cached pod without a query although
\* a fresh lookup in the cluster as it is now would find another pod
C24_Witness ==
    /\ k8sRet.op = "CopyFrom"
    /\ k8sRet.service \in DOMAIN podCache
    /\ k8sRet.pod = podCache[k8sRet.service]
    /\ Len(k8sRet.queries) = 1
    /\ LET fresh == getPodForService(<<>>, cluster, namespace, k8sRet.service)
       IN fresh.err = K8sNil /\ fresh.pod # k8sRet.pod

(***************************************************************************)
(* The two waits of stopNeo4jCommunity as polling loops: each probes its   *)
(* condition, gives up once its timeout has expired, and otherwise sleeps  *)
(* and probes again.  The helper and the database process move on their    *)
(* own, or never do.                                                       *)
(***************************************************************************)

\* the timeouts of the two waits, in seconds
neo4jWatchdogInitTimeout == 5
neo4jProcessStopTimeout == 120

\* Bound: the longest one probe and the sleep after it take, in seconds.
MaxPollInterval == 2

\* the deadline of a wait has passed
Expired_Never(t, timeout) == FALSE
Expired(t, timeout) == t >= timeout

\* the clock of a wait after one more round of d seconds; past the
\* timeout the exact value no longer matters
Later(t, d, timeout) == IF t + d > timeout THEN timeout ELSE t + d

\* a community CreateBackup that has deployed the helper binary and is
\* about to clear the markers and launch it
InitPoll ==
    /\ args = [op |-> "CreateBackup", force |-> TRUE,
               excludeTaskManager |-> FALSE,
               restoreMigrateFormat |-> FALSE, S3Upload |-> FALSE]
    /\ pc = "sn_clear"
    /\ defers = <<"cb_remove_workdir", "cb_restart">>
    /\ retErr = NoErr
    /\ nErr = NoErr
    /\ editionInfo = [Edition |-> neo4jEditionCommunity,
                      IsCommunity |-> TRUE, DetectionErr |-> FALSE]
    /\ neo4jEdition = <<>>
    /\ metadata = createBackupMetadata(TRUE, neo4jEditionCommunity)
    /\ files = <<>>
    /\ workDir = TRUE
    /\ archive = NoArchive
    /\ running = {}
    /\ stoppedServices = AllServices
    /\ servicesToRestart = AllServices
    /\ startCalls = <<>>
    /\ pidStr = <<"4", "2">>
    /\ neo4jProc = "running"
    /\ marker = "none"
    /\ watchdog = FALSE
    /\ elapsed = 0
    /\ remote = <<>>
    /\ runs = <<>>
    /\ K8sIdle
    /\ trace =
         [ i \in 1..7 |->
             Ev(<< "checkPrerequisites", "DetectEnvironment",
                   "detectNeo4jEdition", "stopAppContainers", "MkdirTemp",
                   "MkdirAll backup", "MkdirAll BackupDir" >>[i],
                TRUE, <<>>) ]
         \o << Ev("cat pid file", TRUE, <<"4", "2", "\n">>) >>
         \o [ i \in DOMAIN StopSteps |-> Ev(StopSteps[i], TRUE, <<>>) ]

\* waitForRemoteFile(ready marker, neo4jWatchdogInitTimeout), one round:
\* the probe sees the marker and the wait returns nil, or the timeout has
\* expired and it returns an error, or it sleeps; a probe can miss a
\* marker that is there
WaitForRemoteFile ==
    /\ pc = "sn_wait_ready"
    /\ \E seen \in BOOLEAN :
        /\ seen => marker # "none"
        /\ IF seen
           THEN /\ trace' = Append(trace, Ev("waitForRemoteFile", TRUE, marker))
                /\ pc' = "sn_kill"
                /\ elapsed' = 0
                /\ UNCHANGED nErr
           ELSE IF Expired(elapsed, neo4jWatchdogInitTimeout)
           THEN /\ trace' = Append(trace, Ev("waitForRemoteFile", FALSE, marker))
                /\ NReturn("watchdog failed to initialize", "sn_return")
                /\ elapsed' = 0
           ELSE \E d \in 1..MaxPollInterval :
                /\ elapsed' = Later(elapsed, d, neo4jWatchdogInitTimeout)
                /\ UNCHANGED <<pc, nErr, trace>>
    /\ UNCHANGED <<args, k8s, defers, retErr, edition, fs, app, pidStr,
                   neo4jProc, marker, watchdog, shared>>

\* the helper of this run writes its readiness marker
HelperWritesMarker ==
    /\ pc = "sn_wait_ready"
    /\ watchdog /\ marker # "fresh"
    /\ marker' = "fresh"
    /\ UNCHANGED <<args, k8s, ctl, errs, edition, fs, app, pidStr, neo4jProc,
                   watchdog, elapsed, shared, trace>>

\* waitForProcessStopped(pid, neo4jProcessStopTimeout), one round
WaitForProcessStopped ==
    /\ pc = "sn_wait_stopped"
    /\ \E seen \in BOOLEAN :
        /\ seen => neo4jProc = "stopped"
        /\ IF seen
           THEN /\ trace' = Log("waitForProcessStopped", TRUE)
                /\ NReturn(NoErr, "sn_return")
                /\ elapsed' = 0
           ELSE IF Expired(elapsed, neo4jProcessStopTimeout)
           THEN /\ trace' = Log("waitForProcessStopped", FALSE)
                /\ NReturn("neo4j process did not stop", "sn_return")
                /\ elapsed' = 0
           ELSE \E d \in 1..MaxPollInterval :
                /\ elapsed' = Later(elapsed, d, neo4jProcessStopTimeout)
                /\ UNCHANGED <<pc, nErr, trace>>
    /\ UNCHANGED <<args, k8s, defers, retErr, edition, fs, app, pidStr,
                   neo4jProc, marker, watchdog, shared>>

\* the signalled database process comes to a stop
ProcessStops ==
    /\ pc = "sn_wait_stopped"
    /\ neo4jProc = "signalled"
    /\ neo4jProc' = "stopped"
    /\ UNCHANGED <<args, k8s, ctl, errs, edition, fs, app, pidStr, marker,
                   watchdog, elapsed, shared, trace>>

\* the steps of stopNeo4jCommunity itself; the helper and the process are
\* the environment
StopSequence ==
    \/ SN_ClearMarkers
    \/ SN_Launch
    \/ WaitForRemoteFile
    \/ SN_Kill
    \/ WaitForProcessStopped

NextPoll ==
    \/ StopSequence
    \/ HelperWritesMarker
    \/ ProcessStops

\* stopNeo4jCommunity keeps running: every call it makes returns
SpecPoll == InitPoll /\ [][NextPoll]_vars /\ WF_vars(StopSequence)

\* a wait has just ended with an error
WaitGaveUp(name) ==
    /\ Len(trace') = Len(trace) + 1
    /\ trace'[Len(trace')].ev = name
    /\ ~trace'[Len(trace')].ok

\* C33: the stop sequence always terminates: stopNeo4jCommunity returns,
\* each wait ends either on its condition or on the expiry of its timeout
\* (5 seconds for the readiness marker, 120 seconds for the process
\* stop), and on expiry stopNeo4jCommunity returns an error.
C33_StopSequenceTerminates ==
    /\ <>(pc = "sn_return")
    /\ [](elapsed <= neo4jProcessStopTimeout)
    /\ [](pc = "sn_wait_ready" => elapsed <= neo4jWatchdogInitTimeout)
    /\ [][ /\ WaitGaveUp("waitForRemoteFile") =>
                /\ elapsed = neo4jWatchdogInitTimeout
                /\ pc' = "sn_return" /\ nErr' # NoErr
           /\ WaitGaveUp("waitForProcessStopped") =>
                /\ elapsed = neo4jProcessStopTimeout
                /\ pc' = "sn_return" /\ nErr' # NoErr ]_vars

\* C33 witness: the process never stopped, the second wait ran out of its
\* 120 seconds and stopNeo4jCommunity returned the error
C33_Witness ==
    /\ pc = "sn_return"
    /\ Succeeded("waitForRemoteFile")
    /\ Failed("waitForProcessStopped")
    /\ neo4jProc = "signalled"
    /\ nErr = "neo4j process did not stop"

(***************************************************************************)
(* Several CreateBackup runs at once against the same enterprise database  *)
(* service: each is its own process going through backupNeo4jEnterprise,   *)
(* and all they share is the file system of the service.                   *)
(***************************************************************************)

\* Bound: the runs executed at the same time.
MaxRuns == 2
Runs == 1..MaxRuns

\* the directory a run backs up into inside the database service: the
\* same fixed path for every run
neo4jTempBackupDir == "/tmp/infrahubops"
TempDirOf_PerRun(r) == <<neo4jTempBackupDir, r>>
TempDirOf(r) == neo4jTempBackupDir

NotCopied == <<"nothing copied">>

\* the runs are about to call backupNeo4jEnterprise
InitConcurrent ==
    /\ args = [op |-> "CreateBackup", force |-> TRUE,
               excludeTaskManager |-> TRUE,
               restoreMigrateFormat |-> FALSE, S3Upload |-> FALSE]
    /\ pc = "concurrent"
    /\ defers = <<>>
    /\ retErr = NoErr
    /\ nErr = NoErr
    /\ editionInfo = [Edition |-> neo4jEditionEnterprise,
                      IsCommunity |-> FALSE, DetectionErr |-> FALSE]
    /\ neo4jEdition = <<>>
    /\ metadata = NoMetadata
    /\ files = <<>>
    /\ workDir = FALSE
    /\ archive = NoArchive
    /\ running = AllServices
    /\ stoppedServices = {}
    /\ servicesToRestart = {}
    /\ startCalls = <<>>
    /\ pidStr = <<>>
    /\ neo4jProc = "running"
    /\ marker = "none"
    /\ watchdog = FALSE
    /\ elapsed = 0
    /\ remote = <<>>
    /\ runs = [r \in Runs |->
                 [pc |-> "be_mkdir", copied |-> NotCopied, err |-> NoErr]]
    /\ K8sIdle
    /\ trace = <<>>

\* run r moves on, leaving the other runs where they are
RunStep(r, at, copied, err) ==
    runs' = [runs EXCEPT ![r] = [pc |-> at, copied |-> copied, err |-> err]]

ConcurrentUnchanged ==
    UNCHANGED <<args, k8s, ctl, errs, edition, fs, app, pidStr, neo4jProc,
                marker, watchdog, elapsed>>

\* mkdir -p neo4jTempBackupDir; then the removal is deferred
CR_Mkdir(r) ==
    /\ pc = "concurrent" /\ runs[r].pc = "be_mkdir"
    /\ \E ok \in BOOLEAN :
        /\ trace' = Append(trace, Ev("mkdir temp backup dir", ok, r))
        /\ IF ok
           THEN /\ remote' = IF TempDirOf(r) \in DOMAIN remote
                             THEN remote
                             ELSE (TempDirOf(r) :> {}) @@ remote
                /\ RunStep(r, "be_backup", NotCopied, NoErr)
           ELSE /\ UNCHANGED remote
                /\ RunStep(r, "be_done", NotCopied,
                           "failed to create backup directory")
    /\ ConcurrentUnchanged

\* neo4j-admin database backup --to-path=neo4jTempBackupDir: the backup
\* files of this run are added to what the directory holds; with the
\* directory gone the command fails or creates it
CR_Backup(r) ==
    /\ pc = "concurrent" /\ runs[r].pc = "be_backup"
    /\ \E ok \in BOOLEAN :
        /\ trace' = Append(trace, Ev("neo4j-admin backup", ok, r))
        /\ IF ok
           THEN /\ remote' =
                     IF TempDirOf(r) \in DOMAIN remote
                     THEN [remote EXCEPT ![TempDirOf(r)] = @ \cup {r}]
                     ELSE (TempDirOf(r) :> {r}) @@ remote
                /\ RunStep(r, "be_copy", NotCopied, NoErr)
           ELSE /\ UNCHANGED remote
                /\ RunStep(r, "be_rm", NotCopied, "failed to backup neo4j")
    /\ ConcurrentUnchanged

\* CopyFrom("database", neo4jTempBackupDir, <backupDir>/database): the run
\* gets whatever the directory holds now, nothing when it is gone
CR_CopyFrom(r) ==
    /\ pc = "concurrent" /\ runs[r].pc = "be_copy"
    /\ \E ok \in BOOLEAN :
        /\ trace' = Append(trace, Ev("CopyFrom backup", ok, r))
        /\ IF ok
           THEN RunStep(r, "be_rm",
                        IF TempDirOf(r) \in DOMAIN remote
                        THEN remote[TempDirOf(r)] ELSE {},
                        NoErr)
           ELSE RunStep(r, "be_rm", NotCopied,
                        "failed to copy database backup")
    /\ UNCHANGED remote
    /\ ConcurrentUnchanged

\* deferred: rm -rf neo4jTempBackupDir; a failure is only logged
CR_DeferRm(r) ==
    /\ pc = "concurrent" /\ runs[r].pc = "be_rm"
    /\ \E ok \in BOOLEAN :
        /\ trace' = Append(trace, Ev("rm temp backup dir", ok, r))
        /\ remote' = IF ok
                     THEN [p \in DOMAIN remote \ {TempDirOf(r)} |-> remote[p]]
                     ELSE remote
    /\ RunStep(r, "be_done", runs[r].copied, runs[r].err)
    /\ ConcurrentUnchanged

NextConcurrent ==
    \E r \in Runs :
        \/ CR_Mkdir(r)
        \/ CR_Backup(r)
        \/ CR_CopyFrom(r)
        \/ CR_DeferRm(r)

SpecConcurrent == InitConcurrent /\ [][NextConcurrent]_vars

\* a successful call named name of a run other than r at position j
ByAnother(j, r, name) ==
    trace[j].ev = name /\ trace[j].ok /\ trace[j].arg # r

\* C34: concurrent CreateBackup runs are not isolated from each other,
\* because all of them use the same temporary path inside the database
\* service: whenever another run's deferred removal of that path succeeds
\* between a run's backup command and its copy-out, the run copies out a
\* directory without its own backup, and whenever another run's backup
\* lands there in between and is not removed, the run copies that foreign
\* backup; a run no other run interferes with copies its own backup.
C34_SharedTempPath ==
    \A r \in DOMAIN runs : \A b, c \in DOMAIN trace :
        ( /\ b < c
          /\ trace[b] = Ev("neo4j-admin backup", TRUE, r)
          /\ trace[c] = Ev("CopyFrom backup", TRUE, r) )
        => /\ (\E j \in (b + 1)..(c - 1) : ByAnother(j, r, "rm temp backup dir"))
                => r \notin runs[r].copied
           /\ \A j \in (b + 1)..(c - 1) :
                ( /\ ByAnother(j, r, "neo4j-admin backup")
                  /\ \A k \in (j + 1)..(c - 1) :
                        ~ByAnother(k, r, "rm temp backup dir") )
                => trace[j].arg \in runs[r].copied
           /\ (\A j \in (b + 1)..(c - 1) : trace[j].arg = r)
                => r \in runs[r].copied

\* C34 witness: both runs backed up, the first run's deferred removal came
\* between the second run's backup command and its copy-out, and the
\* second run copied out nothing although the copy returned nil
C34_Witness ==
    /\ pc = "concurrent"
    /\ runs[2].pc = "be_done" /\ runs[2].err = NoErr
    /\ runs[2].copied = {}
    /\ runs[1].err = NoErr
    /\ \E b, j, c \in DOMAIN trace :
        /\ b < j /\ j < c
        /\ trace[b] = Ev("neo4j-admin backup", TRUE, 2)
        /\ trace[j] = Ev("rm temp backup dir", TRUE, 1)
        /\ trace[c] = Ev("CopyFrom backup", TRUE, 2)

====
